---- MODULE Spec2Model ----
(***************************************************************************)
(* api-extractor (fork): the entity graph between the type checker and the *)
(* renderers.  The module models                                           *)
(*   - CollectorEntity (collector/CollectorEntity.ts): export names, local *)
(*     export names by parent, the derived predicates;                     *)
(*   - collectAllReferencedEntities (generators/utils.ts): the trimming    *)
(*     traversal that computes the reduced set of entities to emit.        *)
(* A JavaScript Map or Set is a sequence without repetition, in insertion  *)
(* order.                                                                  *)
(***************************************************************************)
EXTENDS Integers, Sequences, FiniteSets, TLC

VARIABLES
    program,                  \* the analysed program: declarations, imports, entry point exports
    pendingExports,           \* entry point exports the collector has not registered yet
    entities,                 \* Collector.entities: the CollectorEntity list, in creation order
    ce,                       \* the fields of each CollectorEntity, by the AstEntity it wraps
    pc,                       \* "analyze" | "ready" | "seeding" | "done" | "entity"
    releaseTimming,           \* argument of collectAllReferencedEntities
    rootExportTrimmings,      \* argument of collectAllReferencedEntities
    alreadySeenAstEntities,   \* local of collectAllReferencedEntities
    referencedAstEntities,    \* local of collectAllReferencedEntities
    referencedCollectorEntities, \* the returned set
    seedIndex,                \* position of the loop over collector.entities
    stack,                    \* call stack of collectReferencesFromAstEntity
    expandCount,              \* history: how often each AstEntity passed the already-seen test
    declLog,                  \* history: the declarations the pass kept and those it skipped
    lastRead,                 \* the last getter evaluated on a CollectorEntity, with its outcome
    callCount,                \* calls made on CollectorEntity objects outside the collector
    registered,               \* history: per entity, the export names in the order of their first addExportName
    astObjects,               \* the outcomes of the AstImport and AstSubPathImport constructor calls made
    stringWriter,             \* the text written to the StringWriter of emitImport
    lastCall,                 \* the last call made, with its arguments and its outcome
    fileSystem,               \* the configuration files on disk: their extends and their property
    propertyInheritanceTypes, \* ConfigurationFile._propertyInheritanceTypes, of the one property
    configPromiseCache,       \* ConfigurationFile._configPromiseCache: a promise per file path
    loads,                    \* the calls of loadConfigurationFileForProjectAsync
    moduleKindsToEmit,        \* TypeScriptBuilder._moduleKindsToEmit
    emitFiles,                \* ts.emitFiles: the replacements put around the original function
    tslintCacheFile,          \* the file at _tslintCacheFilePath: Undefined-versioned when missing
    sourceFiles,              \* the files on disk: the versions of the source files,
                              \* tslint.json (its hash), the failing files
    rawProjectTslintFile,     \* TypeScriptBuilder._rawProjectTslintFile (its hash)
    tslintRun                 \* the position of the one call of _runTslintAsync

vars == << program, pendingExports, entities, ce, pc, releaseTimming, rootExportTrimmings,
           alreadySeenAstEntities, referencedAstEntities, referencedCollectorEntities,
           seedIndex, stack, expandCount, declLog, lastRead, callCount, registered,
           astObjects, stringWriter, lastCall, fileSystem, propertyInheritanceTypes,
           configPromiseCache, loads, moduleKindsToEmit, emitFiles, tslintCacheFile,
           sourceFiles, rawProjectTslintFile, tslintRun >>

passVars == << releaseTimming, rootExportTrimmings, alreadySeenAstEntities,
               referencedAstEntities, referencedCollectorEntities, seedIndex, stack,
               expandCount, declLog >>

\* what the generators and the other tools keep
configVars == << fileSystem, propertyInheritanceTypes, configPromiseCache, loads >>

lintVars == << tslintCacheFile, sourceFiles, rawProjectTslintFile, tslintRun >>

builderVars == << moduleKindsToEmit, emitFiles, lintVars >>

toolVars == << stringWriter, lastCall, configVars, builderVars >>

\* what the collector and the calls on its entities and imports keep
collectorVars == << program, pendingExports, entities, ce, passVars, lastRead, callCount,
                    registered, astObjects >>

\* what callers of CollectorEntity other than the trimming pass keep
callerVars == << lastRead, callCount, registered, astObjects, toolVars >>

Undefined == "undefined"

\* no getter was read since the last call that changed an entity
NoRead == [ getter |-> "none", entity |-> Undefined, threw |-> FALSE, value |-> FALSE ]

\* no call was made yet
NoCall == [ op |-> "none" ]

\* no configuration file is on disk and none is loaded
ConfigurationIdle ==
    /\ fileSystem = << >>
    /\ propertyInheritanceTypes = << >>
    /\ configPromiseCache = << >>
    /\ loads = << >>

\* no call of _runTslintAsync is under way
NoRun == [ stage |-> "idle" ]

\* no TypeScriptBuilder runs
BuilderIdle ==
    /\ moduleKindsToEmit = << >>
    /\ emitFiles = << >>
    /\ tslintCacheFile = << >>
    /\ sourceFiles = << >>
    /\ rawProjectTslintFile = Undefined
    /\ tslintRun = NoRun

\* nothing was written and no call was made
ToolsIdle ==
    /\ stringWriter = ""
    /\ lastCall = NoCall
    /\ ConfigurationIdle
    /\ BuilderIdle

(***************************************************************************)
(* Sequences as Maps and Sets                                              *)
(***************************************************************************)
Range(s) == { s[i] : i \in 1..Len(s) }

SetAdd(s, x) == IF x \in Range(s) THEN s ELSE Append(s, x)

RECURSIVE Concat(_)
Concat(ss) == IF ss = << >> THEN << >> ELSE Head(ss) \o Concat(Tail(ss))

RECURSIVE SeqsOver(_, _)
SeqsOver(S, n) ==
    IF n = 0 THEN { << >> }
    ELSE LET shorter == SeqsOver(S, n - 1)
         IN  shorter \cup { Append(s, x) : s \in { t \in shorter : Len(t) = n - 1 }, x \in S }

(***************************************************************************)
(* ReleaseTag (@microsoft/api-extractor-model): the enum and its compare   *)
(***************************************************************************)
None == 0
Internal == 1
Alpha == 2
Beta == 3
Public == 4

ReleaseTags == { None, Internal, Alpha, Beta, Public }

ReleaseTagCompare(a, b) == a - b

(***************************************************************************)
(* The AstEntity variants                                                  *)
(***************************************************************************)
AstSymbols == { "X", "Y", "Z", "M" }
MemberSymbols == { "M" }          \* symbols of class members: children of a declaration
AstImports == { "ImpBase", "ImpDeep" }
AstSubPathImports == { "Sub" }
AstNamespaceImports == { "Ns" }

AstEntities == AstSymbols \cup AstImports \cup AstSubPathImports \cup AstNamespaceImports

\* AstImport.exportPath of the two external imports: `import { NS } from "lib"` and
\* `import Y2 = NS.Y`
exportPath == ( "ImpBase" :> << "NS" >> ) @@ ( "ImpDeep" :> << "NS", "Y" >> )

\* AstImport.exportName of the two: the name the import statement binds
exportNameOfImport == ( "ImpBase" :> "NS" ) @@ ( "ImpDeep" :> "Y2" )

\* AstSymbolTable.tryGetReferencedAstImport
tryGetReferencedAstImport(astImport) ==
    IF astImport = "ImpDeep" THEN "ImpBase" ELSE Undefined

AstDeclaration(releaseTag, referenced, children) ==
    [ releaseTag |-> releaseTag, referencedAstEntities |-> referenced, children |-> children ]

(***************************************************************************)
(* The programs analysed.  X has two merged declarations, X and Y refer to *)
(* each other, M is a member of X's first declaration, Sub is a sub-path   *)
(* import of a local symbol or of an external import.                      *)
(***************************************************************************)
MaxExports == 2

ExportChoices ==
    { [ name |-> "X",  astEntity |-> "X",  isTypeOnlyExport |-> FALSE ],
      [ name |-> "Y",  astEntity |-> "X",  isTypeOnlyExport |-> TRUE ],
      [ name |-> "Y",  astEntity |-> "Y",  isTypeOnlyExport |-> FALSE ],
      [ name |-> "Ns", astEntity |-> "Ns", isTypeOnlyExport |-> FALSE ] }

ExportNames == { x.name : x \in ExportChoices }

\* an export table gives each name once
ExportTables ==
    { t \in SeqsOver(ExportChoices, MaxExports) :
        \A i, j \in 1..Len(t) : i # j => t[i].name # t[j].name }

Programs ==
    { [ astDeclarations |->
            ( "X" :> << AstDeclaration(tX1, << "Y" >>, << "M" >>),
                        AstDeclaration(tX2, << "Sub", "ImpDeep" >>, << >>) >> ) @@
            ( "Y" :> << AstDeclaration(tY, << "X" >>, << >>) >> ) @@
            ( "M" :> << AstDeclaration(tM, << "Ns", "ImpBase" >>, << >>) >> ) @@
            ( "Z" :> << AstDeclaration(None, << >>, << >>) >> ),
        baseAstEntity |-> ( "Sub" :> base ),
        exportedLocalEntities |-> ( "Ns" :> << [ name |-> "Z", astEntity |-> "Z" ] >> ),
        entryPointExports |-> exports ] :
      tX1 \in ReleaseTags, tX2 \in { Internal, Beta }, tY \in { Alpha, Public },
      tM \in { None, Internal }, base \in { "Z", "ImpBase" }, exports \in ExportTables }

(***************************************************************************)
(* Sort.sortMapKeys (@rushstack/node-core-library) with the default        *)
(* comparer: the strings of the model in JavaScript's `<` order            *)
(***************************************************************************)
StringOrder == << "Ns", "X", "Y", "Z", "add", "default", "sub" >>

StringRank(str) == CHOOSE i \in 1..Len(StringOrder) : StringOrder[i] = str

RECURSIVE InsertByKey(_, _)
InsertByKey(sorted, pair) ==
    IF sorted = << >> THEN << pair >>
    ELSE IF StringRank(pair.name) < StringRank(Head(sorted).name)
         THEN << pair >> \o sorted
         ELSE << Head(sorted) >> \o InsertByKey(Tail(sorted), pair)

RECURSIVE sortMapKeys(_)
sortMapKeys(map) ==
    IF map = << >> THEN << >>
    ELSE InsertByKey(sortMapKeys(SubSeq(map, 1, Len(map) - 1)), map[Len(map)])

MapHas(map, key) == \E i \in 1..Len(map) : map[i].name = key

MapKeys(map) == [ i \in 1..Len(map) |-> map[i].name ]

(***************************************************************************)
(* CollectorEntity                                                         *)
(***************************************************************************)
NewCollectorEntity(astEntity) ==
    [ astEntity |-> astEntity,
      _exportNames |-> << >>,
      _exportNamesSorted |-> FALSE,
      _singleExportName |-> Undefined,
      _localExportNamesByParent |-> << >>,
      _nameForEmit |-> Undefined,
      _sortKey |-> Undefined ]

\* get exportNames(): the entity after the getter ran; the value returned is its _exportNames
exportNames(c) ==
    IF ~c._exportNamesSorted
    THEN [ c EXCEPT !._exportNames = sortMapKeys(@), !._exportNamesSorted = TRUE ]
    ELSE c

\* get exportedFromEntryPoint(): its value; it reads this.exportNames, so the entity
\* it leaves behind is exportNames(c)
exportedFromEntryPoint(c) == Len(exportNames(c)._exportNames) > 0

\* mutant of exported: the loop over the parents (lines 134-138) is missing
exportedFromTopLevelOnly(c) == exportedFromEntryPoint(c)

\* get exported(), lines 129-141: its value; it reads this.exportedFromEntryPoint
exported(c) ==
    \/ exportedFromEntryPoint(c)
    \/ \E i \in 1..Len(c._localExportNamesByParent) :
          Len(c._localExportNamesByParent[i].names) > 0

\* mutant of addExportName: line 201 is missing, a name added after the getter was
\* read leaves the map marked as sorted
addExportNameKeepingSortedMark(c, exportName, isTypeOnlyExport) ==
    IF ~MapHas(c._exportNames, exportName)
    THEN LET names == Append(c._exportNames,
                             [ name |-> exportName, isTypeOnlyExport |-> isTypeOnlyExport ])
         IN  [ c EXCEPT !._exportNames = names,
                        !._singleExportName =
                            IF Len(names) = 1 THEN exportName ELSE Undefined ]
    ELSE c

\* mutant of addExportName: lines 204-208 without the size test, the last name added
\* is the single export name
addExportNameLastIsSingle(c, exportName, isTypeOnlyExport) ==
    IF ~MapHas(c._exportNames, exportName)
    THEN [ c EXCEPT !._exportNamesSorted = FALSE,
                    !._exportNames =
                        Append(@, [ name |-> exportName,
                                    isTypeOnlyExport |-> isTypeOnlyExport ]),
                    !._singleExportName = exportName ]
    ELSE c

addExportName(c, exportName, isTypeOnlyExport) ==
    IF ~MapHas(c._exportNames, exportName)
    THEN LET names == Append(c._exportNames,
                             [ name |-> exportName, isTypeOnlyExport |-> isTypeOnlyExport ])
         IN  [ c EXCEPT !._exportNamesSorted = FALSE,
                        !._exportNames = names,
                        !._singleExportName =
                            IF Len(names) = 1 THEN exportName ELSE Undefined ]
    ELSE c

\* Map.set on a map of { isTypeOnlyExport } values: an existing key keeps its place
MapSet(map, key, isTypeOnlyExport) ==
    IF MapHas(map, key)
    THEN [ i \in 1..Len(map) |->
             IF map[i].name = key
             THEN [ name |-> key, isTypeOnlyExport |-> isTypeOnlyExport ]
             ELSE map[i] ]
    ELSE Append(map, [ name |-> key, isTypeOnlyExport |-> isTypeOnlyExport ])

ParentIndex(c, parent) ==
    IF \E i \in 1..Len(c._localExportNamesByParent) :
           c._localExportNamesByParent[i].parent = parent
    THEN CHOOSE i \in 1..Len(c._localExportNamesByParent) :
           c._localExportNamesByParent[i].parent = parent
    ELSE 0

addLocalExportName(c, localExportName, isTypeOnlyExport, parent) ==
    LET at == ParentIndex(c, parent)
        localExportNames == IF at = 0 THEN << >> ELSE c._localExportNamesByParent[at].names
        updated == [ parent |-> parent,
                     names |-> MapSet(localExportNames, localExportName, isTypeOnlyExport) ]
    IN  [ c EXCEPT !._localExportNamesByParent =
            IF at = 0 THEN Append(@, updated) ELSE [ @ EXCEPT ![at] = updated ] ]

\* astEntity.localName: the name of a local symbol, the exportName of an AstImport
\* whatever its exportPath is (AstSubPathImport.ts lines 244-246)
localName(astEntity) ==
    IF astEntity \in AstImports
    THEN exportNameOfImport[astEntity]
    ELSE astEntity

\* Collector.getSortKeyIgnoringUnderscore: the name without its leading underscore
getSortKeyIgnoringUnderscore(identifier) ==
    IF identifier = Undefined \/ identifier = "" THEN ""
    ELSE IF Head(identifier) = "_" THEN Tail(identifier)
    ELSE identifier

\* a value JavaScript reads as false in `!x` and `x || y`
Falsy(value) == value = Undefined \/ value = ""

\* getSortKey(), lines 244-249: the entity after the call; the value returned is its _sortKey
getSortKey(c) ==
    IF Falsy(c._sortKey)
    THEN [ c EXCEPT !._sortKey =
             getSortKeyIgnoringUnderscore(
                 IF Falsy(c._nameForEmit) THEN localName(c.astEntity) ELSE c._nameForEmit) ]
    ELSE c

\* mutant of setNameForEmit: line 51 is missing, the cached sort key survives
setNameForEmitKeepingSortKey(c, value) == [ c EXCEPT !._nameForEmit = value ]

\* set nameForEmit(value), lines 49-52
setNameForEmit(c, value) == [ c EXCEPT !._nameForEmit = value, !._sortKey = Undefined ]

\* ts.InternalSymbolName.Default
InternalSymbolNameDefault == "default"

\* this._exportNames.get(key)?.isTypeOnlyExport, undefined read as false
MapGetIsTypeOnlyExport(map, key) ==
    \E i \in 1..Len(map) : map[i].name = key /\ map[i].isTypeOnlyExport

\* mutant of shouldInlineExport: the test of lines 91-93 is missing
shouldInlineExportOfTypeOnly(c) ==
    /\ c.astEntity \in AstSymbols
    /\ c._singleExportName # Undefined
    /\ c._singleExportName # InternalSymbolNameDefault
    /\ c._nameForEmit = Undefined \/ c._nameForEmit = c._singleExportName

\* get shouldInlineExport(), lines 85-101
shouldInlineExport(c) ==
    /\ c.astEntity \in AstSymbols
    /\ c._singleExportName # Undefined
    /\ c._singleExportName # InternalSymbolNameDefault
    /\ ~MapGetIsTypeOnlyExport(c._exportNames, c._singleExportName)
    /\ c._nameForEmit = Undefined \/ c._nameForEmit = c._singleExportName

(***************************************************************************)
(* Collector.analyze: the entity table.  One CollectorEntity per distinct  *)
(* AstEntity reachable from the entry point; an export name is registered  *)
(* on the entity it resolves to; the member of a namespace import gets a   *)
(* local export name under that namespace's entity.  The symbol of a class *)
(* member is traversed and gets no CollectorEntity.                        *)
(***************************************************************************)
tryGetCollectorEntity(astEntity) ==
    IF astEntity \in Range(entities) THEN astEntity ELSE Undefined

CollectorReferences(astEntity) ==
    IF astEntity \in AstSymbols
    THEN LET decls == program.astDeclarations[astEntity]
         IN  Concat([ i \in 1..Len(decls) |->
                        decls[i].referencedAstEntities \o decls[i].children ])
    ELSE IF astEntity \in AstNamespaceImports
    THEN LET members == program.exportedLocalEntities[astEntity]
         IN  [ i \in 1..Len(members) |-> members[i].astEntity ]
    ELSE IF astEntity \in AstSubPathImports
    THEN << program.baseAstEntity[astEntity] >>
    ELSE << >>

RECURSIVE CollectorClosure(_, _)
CollectorClosure(todo, seen) ==
    IF todo = << >> THEN seen
    ELSE IF Head(todo) \in Range(seen) THEN CollectorClosure(Tail(todo), seen)
    ELSE CollectorClosure(CollectorReferences(Head(todo)) \o Tail(todo),
                          Append(seen, Head(todo)))

\* the local export names Collector registers: one per member of each namespace import
LocalExportsOf(created) ==
    Concat([ i \in 1..Len(created) |->
               IF created[i] \in AstNamespaceImports
               THEN LET members == program.exportedLocalEntities[created[i]]
                    IN  [ j \in 1..Len(members) |->
                            [ child |-> members[j].astEntity, name |-> members[j].name,
                              parent |-> created[i] ] ]
               ELSE << >> ])

RECURSIVE RegisterLocalExports(_, _)
RegisterLocalExports(table, regs) ==
    IF regs = << >> THEN table
    ELSE LET r == Head(regs)
         IN  RegisterLocalExports(
                 [ table EXCEPT ![r.child] = addLocalExportName(@, r.name, FALSE, r.parent) ],
                 Tail(regs))

CreateEntityForExport ==
    /\ pc = "analyze"
    /\ pendingExports # << >>
    /\ LET export == Head(pendingExports)
           c == IF export.astEntity \in Range(entities)
                THEN ce[export.astEntity]
                ELSE NewCollectorEntity(export.astEntity)
       IN  /\ entities' = SetAdd(entities, export.astEntity)
           /\ ce' = ( export.astEntity :>
                        addExportName(c, export.name, export.isTypeOnlyExport) ) @@ ce
    /\ pendingExports' = Tail(pendingExports)
    /\ UNCHANGED << program, pc, passVars, callerVars >>

CreateEntitiesForReferences ==
    /\ pc = "analyze"
    /\ pendingExports = << >>
    /\ LET reached == CollectorClosure(entities, << >>)
           created == SelectSeq(reached, LAMBDA e : e \notin MemberSymbols)
           fresh == [ e \in Range(created) |->
                        IF e \in Range(entities) THEN ce[e] ELSE NewCollectorEntity(e) ]
       IN  /\ entities' = created
           /\ ce' = RegisterLocalExports(fresh, LocalExportsOf(created))
    /\ pc' = "ready"
    /\ UNCHANGED << program, pendingExports, passVars, callerVars >>

(***************************************************************************)
(* collectAllReferencedEntities                                            *)
(***************************************************************************)
RootExportTrimmingChoices == SUBSET { "X", "Y" }

\* mutant of IsTrimmed: `<= 0` for `< 0`, the target tag itself is trimmed
IsTrimmedInclusive(releaseTag, target) ==
    releaseTag # None /\ ReleaseTagCompare(releaseTag, target) <= 0

\* mutant of IsTrimmed: the operands of ReleaseTag.compare are swapped, the tags stricter
\* than the target are trimmed
IsTrimmedAbove(releaseTag, target) ==
    releaseTag # None /\ ReleaseTagCompare(target, releaseTag) < 0

\* utils.ts line 28: the declaration is trimmed out
IsTrimmed(releaseTag, target) ==
    releaseTag # None /\ ReleaseTagCompare(releaseTag, target) < 0

\* the declarations of a symbol that lines 25-30 do not skip
KeptDeclarations(astSymbol, target) ==
    { i \in 1..Len(program.astDeclarations[astSymbol]) :
        ~IsTrimmed(program.astDeclarations[astSymbol][i].releaseTag, target) }

\* mutant of CallsOf: the `continue` of line 29 is missing, trimmed declarations are followed
CallsOfEveryDeclaration(astEntity, target) ==
    IF astEntity \in AstSymbols
    THEN LET decls == program.astDeclarations[astEntity]
         IN  Concat([ i \in 1..Len(decls) |->
                        decls[i].referencedAstEntities \o decls[i].children ])
    ELSE IF astEntity \in AstNamespaceImports
    THEN LET members == program.exportedLocalEntities[astEntity]
         IN  [ i \in 1..Len(members) |-> members[i].astEntity ]
    ELSE << >>

\* the recursive calls the body of collectReferencesFromAstEntity makes for astEntity,
\* in order
CallsOf(astEntity, target) ==
    IF astEntity \in AstSymbols
    THEN LET decls == program.astDeclarations[astEntity]
         IN  Concat([ i \in 1..Len(decls) |->
                        IF i \in KeptDeclarations(astEntity, target)
                        THEN decls[i].referencedAstEntities \o decls[i].children
                        ELSE << >> ])
    ELSE IF astEntity \in AstNamespaceImports
    THEN LET members == program.exportedLocalEntities[astEntity]
         IN  [ i \in 1..Len(members) |-> members[i].astEntity ]
    ELSE << >>

\* mutant of IsReferenced: line 32 moved in front of the loop over the declarations
IsReferencedBeforeLoop(astEntity, target) == TRUE

\* whether the body adds astEntity to referencedAstEntities (lines 32, 42, 49)
IsReferenced(astEntity, target) ==
    astEntity \in AstSymbols => KeptDeclarations(astEntity, target) # {}

\* mutant of IsSeed: rootExportTrimmings is not consulted
IsSeedWhenExported(c, trimmings) == exportedFromEntryPoint(c)

\* lines 54-57: the entity seeds the traversal
IsSeed(c, trimmings) ==
    /\ exportedFromEntryPoint(c)
    /\ \E i \in 1..Len(exportNames(c)._exportNames) :
           exportNames(c)._exportNames[i].name \notin trimmings

\* mutant of ToCollectorEntities: the test of line 66 is missing
ToCollectorEntitiesUnchecked(referenced) == referenced

\* lines 62-70: the CollectorEntity of each referenced AstEntity that has one
ToCollectorEntities(referenced) ==
    SelectSeq(referenced, LAMBDA e : tryGetCollectorEntity(e) # Undefined)

\* mutant of StartCollect: alreadySeenAstEntities lives outside the function and is not
\* made afresh by a call
StartCollectKeepingSeen(target, trimmings) ==
    /\ pc \in { "ready", "done" }
    /\ pc' = "seeding"
    /\ releaseTimming' = target
    /\ rootExportTrimmings' = trimmings
    /\ referencedAstEntities' = << >>
    /\ referencedCollectorEntities' = << >>
    /\ seedIndex' = 1
    /\ stack' = << >>
    /\ expandCount' = [ e \in AstEntities |-> 0 ]
    /\ declLog' = { }
    /\ UNCHANGED << program, pendingExports, entities, ce, callerVars, alreadySeenAstEntities >>

\* lines 10-17: the call, with its fresh sets
StartCollect(target, trimmings) ==
    /\ pc \in { "ready", "done" }
    /\ pc' = "seeding"
    /\ releaseTimming' = target
    /\ rootExportTrimmings' = trimmings
    /\ referencedAstEntities' = << >>
    /\ alreadySeenAstEntities' = { }
    /\ referencedCollectorEntities' = << >>
    /\ seedIndex' = 1
    /\ stack' = << >>
    /\ expandCount' = [ e \in AstEntities |-> 0 ]
    /\ declLog' = { }
    /\ UNCHANGED << program, pendingExports, entities, ce, callerVars >>

\* mutant of Enter: line 22 is missing, the entity is not recorded as seen
EnterWithoutRecording(astEntity, callers) ==
    /\ alreadySeenAstEntities' = alreadySeenAstEntities
    /\ referencedAstEntities' =
           IF IsReferenced(astEntity, releaseTimming)
           THEN SetAdd(referencedAstEntities, astEntity)
           ELSE referencedAstEntities
    /\ stack' = Append(callers, [ astEntity |-> astEntity,
                                  calls |-> CallsOf(astEntity, releaseTimming) ])
    /\ expandCount' = [ expandCount EXCEPT ![astEntity] = @ + 1 ]
    /\ declLog' = declLog \cup
           IF astEntity \in AstSymbols
           THEN { [ astSymbol |-> astEntity, index |-> i,
                    kept |-> i \in KeptDeclarations(astEntity, releaseTimming) ] :
                  i \in 1..Len(program.astDeclarations[astEntity]) }
           ELSE { }

\* lines 19-50: astEntity passed the already-seen test; its body up to its first call
Enter(astEntity, callers) ==
    /\ alreadySeenAstEntities' = alreadySeenAstEntities \cup { astEntity }
    /\ referencedAstEntities' =
           IF IsReferenced(astEntity, releaseTimming)
           THEN SetAdd(referencedAstEntities, astEntity)
           ELSE referencedAstEntities
    /\ stack' = Append(callers, [ astEntity |-> astEntity,
                                  calls |-> CallsOf(astEntity, releaseTimming) ])
    /\ expandCount' = [ expandCount EXCEPT ![astEntity] = @ + 1 ]
    /\ declLog' = declLog \cup
           IF astEntity \in AstSymbols
           THEN { [ astSymbol |-> astEntity, index |-> i,
                    kept |-> i \in KeptDeclarations(astEntity, releaseTimming) ] :
                  i \in 1..Len(program.astDeclarations[astEntity]) }
           ELSE { }

\* lines 53-60, one iteration: the entity is no seed
SeedSkip ==
    /\ pc = "seeding" /\ stack = << >> /\ seedIndex <= Len(entities)
    /\ ~IsSeed(ce[entities[seedIndex]], rootExportTrimmings)
    /\ ce' = [ ce EXCEPT ![entities[seedIndex]] = exportNames(@) ]
    /\ seedIndex' = seedIndex + 1
    /\ UNCHANGED << program, pendingExports, entities, pc, releaseTimming,
                    rootExportTrimmings, alreadySeenAstEntities, referencedAstEntities,
                    referencedCollectorEntities, stack, expandCount, declLog, callerVars >>

\* lines 53-60, one iteration: the entity is a seed, collectReferencesFromAstEntity is called
SeedCall ==
    /\ pc = "seeding" /\ stack = << >> /\ seedIndex <= Len(entities)
    /\ IsSeed(ce[entities[seedIndex]], rootExportTrimmings)
    /\ ce' = [ ce EXCEPT ![entities[seedIndex]] = exportNames(@) ]
    /\ seedIndex' = seedIndex + 1
    /\ IF ce[entities[seedIndex]].astEntity \in alreadySeenAstEntities
       THEN UNCHANGED << alreadySeenAstEntities, referencedAstEntities, stack,
                         expandCount, declLog >>
       ELSE Enter(ce[entities[seedIndex]].astEntity, stack)
    /\ UNCHANGED << program, pendingExports, entities, pc, releaseTimming,
                    rootExportTrimmings, referencedCollectorEntities, callerVars >>

\* lines 34-39 and 45-47: the next recursive call finds its argument already seen (19-21)
CallSeen ==
    /\ pc = "seeding" /\ stack # << >>
    /\ stack[Len(stack)].calls # << >>
    /\ Head(stack[Len(stack)].calls) \in alreadySeenAstEntities
    /\ stack' = [ stack EXCEPT ![Len(stack)].calls = Tail(@) ]
    /\ UNCHANGED << program, pendingExports, entities, ce, pc, releaseTimming,
                    rootExportTrimmings, alreadySeenAstEntities, referencedAstEntities,
                    referencedCollectorEntities, seedIndex, expandCount, declLog, callerVars >>

\* lines 34-39 and 45-47: the next recursive call enters an entity not seen before
CallEnter ==
    /\ pc = "seeding" /\ stack # << >>
    /\ stack[Len(stack)].calls # << >>
    /\ Head(stack[Len(stack)].calls) \notin alreadySeenAstEntities
    /\ Enter(Head(stack[Len(stack)].calls),
             [ stack EXCEPT ![Len(stack)].calls = Tail(@) ])
    /\ UNCHANGED << program, pendingExports, entities, ce, pc, releaseTimming,
                    rootExportTrimmings, referencedCollectorEntities, seedIndex, callerVars >>

\* line 51: the body of collectReferencesFromAstEntity is done
Return ==
    /\ pc = "seeding" /\ stack # << >>
    /\ stack[Len(stack)].calls = << >>
    /\ stack' = SubSeq(stack, 1, Len(stack) - 1)
    /\ UNCHANGED << program, pendingExports, entities, ce, pc, releaseTimming,
                    rootExportTrimmings, alreadySeenAstEntities, referencedAstEntities,
                    referencedCollectorEntities, seedIndex, expandCount, declLog, callerVars >>

\* lines 62-70
Finish ==
    /\ pc = "seeding" /\ stack = << >> /\ seedIndex > Len(entities)
    /\ referencedCollectorEntities' = ToCollectorEntities(referencedAstEntities)
    /\ pc' = "done"
    /\ UNCHANGED << program, pendingExports, entities, ce, releaseTimming,
                    rootExportTrimmings, alreadySeenAstEntities, referencedAstEntities,
                    seedIndex, stack, expandCount, declLog, callerVars >>

(***************************************************************************)
(* collectAllReferencedEntities as one call: the value it returns for a    *)
(* threshold and a set of trimmed root export names, on the collector of   *)
(* the current state.                                                      *)
(***************************************************************************)
NothingSeen == [ alreadySeen |-> { }, referenced |-> << >> ]

RECURSIVE collectReferencesFromAstEntity(_, _, _)
RECURSIVE collectReferencesOfCalls(_, _, _)

\* lines 34-39 and 45-47: the recursive calls of one body, in order
collectReferencesOfCalls(calls, state, target) ==
    IF calls = << >>
    THEN state
    ELSE collectReferencesOfCalls(Tail(calls),
             collectReferencesFromAstEntity(Head(calls), state, target), target)

\* lines 18-51: the two sets after the call for astEntity
collectReferencesFromAstEntity(astEntity, state, target) ==
    IF astEntity \in state.alreadySeen
    THEN state
    ELSE collectReferencesOfCalls(CallsOf(astEntity, target),
             [ alreadySeen |-> state.alreadySeen \cup { astEntity },
               referenced |-> IF IsReferenced(astEntity, target)
                              THEN SetAdd(state.referenced, astEntity)
                              ELSE state.referenced ],
             target)

\* lines 10-71: the seeds in the order of collector.entities, then the CollectorEntities
collectAllReferencedEntities(target, trimmings) ==
    LET seeds == SelectSeq(entities, LAMBDA e : IsSeed(ce[e], trimmings))
        roots == [ i \in 1..Len(seeds) |-> ce[seeds[i]].astEntity ]
    IN  ToCollectorEntities(collectReferencesOfCalls(roots, NothingSeen, target).referenced)

\* a threshold at least as strict as another: Public > Beta > Alpha > Internal > None
AtLeastAsStrict(stricter, weaker) == ReleaseTagCompare(stricter, weaker) >= 0

\* C29: trimming is monotone.  For the same collector, the set returned for a stricter
\* threshold is a subset of the set returned for a weaker one, and the set returned for a
\* larger rootExportTrimmings is a subset of the set returned for a smaller one; the set a
\* finished pass has left in referencedCollectorEntities is the returned set of its
\* arguments, and so is bounded by the sets of the weaker arguments and bounds the sets of
\* the stricter ones.
C29_TrimmingMonotone ==
    /\ pc = "ready" =>
         \A stricter, weaker \in ReleaseTags :
             \A larger, smaller \in RootExportTrimmingChoices :
                 AtLeastAsStrict(stricter, weaker) /\ smaller \subseteq larger =>
                     Range(collectAllReferencedEntities(stricter, larger))
                         \subseteq Range(collectAllReferencedEntities(weaker, smaller))
    /\ pc = "done" =>
         /\ referencedCollectorEntities =
                collectAllReferencedEntities(releaseTimming, rootExportTrimmings)
         /\ \A other \in ReleaseTags, trimmings \in RootExportTrimmingChoices :
                /\ AtLeastAsStrict(releaseTimming, other) /\ trimmings \subseteq rootExportTrimmings
                       => Range(referencedCollectorEntities) \subseteq Range(collectAllReferencedEntities(other, trimmings))
                /\ AtLeastAsStrict(other, releaseTimming) /\ rootExportTrimmings \subseteq trimmings
                       => Range(collectAllReferencedEntities(other, trimmings)) \subseteq Range(referencedCollectorEntities)

\* a pass with a trimmed root export name is done and has returned entities, and both the
\* pass with a weaker threshold and the pass with no trimmed name return strictly more
C29_Witness ==
    /\ pc = "done"
    /\ rootExportTrimmings # { }
    /\ Range(referencedCollectorEntities) # { }
    /\ \E weaker \in ReleaseTags :
           /\ AtLeastAsStrict(releaseTimming, weaker)
           /\ Range(referencedCollectorEntities)
                  # Range(collectAllReferencedEntities(weaker, rootExportTrimmings))
    /\ Range(referencedCollectorEntities)
           # Range(collectAllReferencedEntities(releaseTimming, { }))

Init ==
    /\ program \in Programs
    /\ pendingExports = program.entryPointExports
    /\ entities = << >>
    /\ ce = << >>
    /\ pc = "analyze"
    /\ releaseTimming = None
    /\ rootExportTrimmings = { }
    /\ alreadySeenAstEntities = { }
    /\ referencedAstEntities = << >>
    /\ referencedCollectorEntities = << >>
    /\ seedIndex = 0
    /\ stack = << >>
    /\ expandCount = [ e \in AstEntities |-> 0 ]
    /\ declLog = { }
    /\ lastRead = NoRead
    /\ callCount = 0
    /\ registered = << >>
    /\ astObjects = << >>
    /\ ToolsIdle

Next ==
    \/ CreateEntityForExport
    \/ CreateEntitiesForReferences
    \/ \E target \in ReleaseTags, trimmings \in RootExportTrimmingChoices :
           StartCollect(target, trimmings)
    \/ SeedSkip
    \/ SeedCall
    \/ CallSeen
    \/ CallEnter
    \/ Return
    \/ Finish

Spec == Init /\ [][Next]_vars

(***************************************************************************)
(* The reduced set, stated without the traversal: the tags a threshold     *)
(* trims, the references a declaration contributes, the least set closed   *)
(* under them.                                                             *)
(***************************************************************************)
\* Public > Beta > Alpha > Internal; None is never trimmed and trims nothing
WeakerTags(target) ==
    CASE target = Public   -> { Beta, Alpha, Internal }
      [] target = Beta     -> { Alpha, Internal }
      [] target = Alpha    -> { Internal }
      [] target = Internal -> { }
      [] target = None     -> { }

SurvivingDeclarations(astSymbol, target) ==
    { d \in Range(program.astDeclarations[astSymbol]) : d.releaseTag \notin WeakerTags(target) }

Contributes(from, to, target) ==
    \/ /\ from \in AstSymbols
       /\ \E d \in SurvivingDeclarations(from, target) :
              to \in Range(d.referencedAstEntities) \cup Range(d.children)
    \/ /\ from \in AstNamespaceImports
       /\ \E m \in Range(program.exportedLocalEntities[from]) : m.astEntity = to

RECURSIVE ReachableFrom(_, _)
ReachableFrom(S, target) ==
    LET T == S \cup { to \in AstEntities : \E from \in S : Contributes(from, to, target) }
    IN  IF T = S THEN S ELSE ReachableFrom(T, target)

RegisteredNames(c) == { c._exportNames[i].name : i \in 1..Len(c._exportNames) }

UntrimmedSeeds(trimmings) ==
    { e \in Range(entities) : RegisteredNames(ce[e]) \ trimmings # { } }

ReducedSet(target, trimmings) ==
    { e \in ReachableFrom(UntrimmedSeeds(trimmings), target) :
        /\ e \in Range(entities)
        /\ e \in AstSymbols => SurvivingDeclarations(e, target) # { } }

Result == Range(referencedCollectorEntities)

TagsOf(astSymbol) == { d.releaseTag : d \in Range(program.astDeclarations[astSymbol]) }

\* C1: trimming partiality.  When a pass is done, a visited AstSymbol that has a
\* CollectorEntity is in the reduced set iff one of its merged declarations survives the
\* threshold; and the calls made for a symbol come from surviving declarations only.
C1_TrimmingPartiality ==
    /\ pc = "done" =>
         \A s \in AstSymbols \cap alreadySeenAstEntities :
             tryGetCollectorEntity(s) # Undefined =>
                 ( s \in Result <=> SurvivingDeclarations(s, releaseTimming) # { } )
    /\ \A i \in 1..Len(stack) :
         stack[i].astEntity \in AstSymbols =>
             \A callee \in Range(stack[i].calls) :
                 \E d \in SurvivingDeclarations(stack[i].astEntity, releaseTimming) :
                     callee \in Range(d.referencedAstEntities) \cup Range(d.children)

\* a symbol merged from a Beta and an Internal declaration, trimmed at Beta, is in the
\* reduced set; so is what the Beta declaration refers to
C1_Witness ==
    /\ pc = "done" /\ releaseTimming = Beta
    /\ TagsOf("X") = { Beta, Internal }
    /\ program.astDeclarations["X"][1].releaseTag = Beta
    /\ "X" \in Result /\ "Y" \in Result /\ "Sub" \notin Result

\* C2: a trimmed declaration contributes nothing.  When a pass is done, every entity of
\* the reduced set is reachable from a seed through surviving declarations, and every
\* reference and child of a surviving declaration of a visited symbol was followed.
C2_TrimmedContributesNothing ==
    pc = "done" =>
        /\ alreadySeenAstEntities \subseteq
               ReachableFrom(UntrimmedSeeds(rootExportTrimmings), releaseTimming)
        /\ \A s \in AstSymbols \cap alreadySeenAstEntities :
             \A d \in SurvivingDeclarations(s, releaseTimming) :
                 Range(d.referencedAstEntities) \cup Range(d.children)
                     \subseteq alreadySeenAstEntities

\* X keeps its first declaration and loses its second: Y (first) is in the reduced set,
\* Sub and ImpDeep (second) are not
C2_Witness ==
    /\ pc = "done"
    /\ "X" \in Result /\ "Y" \in Result
    /\ IsTrimmed(program.astDeclarations["X"][2].releaseTag, releaseTimming)
    /\ "Sub" \notin alreadySeenAstEntities /\ "ImpDeep" \notin alreadySeenAstEntities

RECURSIVE PendingCalls(_)
PendingCalls(frames) ==
    IF frames = << >> THEN 0 ELSE Len(Head(frames).calls) + PendingCalls(Tail(frames))

\* what is left of a pass: entities not seen, calls not made, frames not returned from,
\* entities not tried as seeds
Measure ==
    IF pc # "seeding" THEN 0
    ELSE 1 + Cardinality(AstEntities \ alreadySeenAstEntities) * Cardinality(AstEntities)
           + PendingCalls(stack) + Len(stack) + (Len(entities) + 1 - seedIndex)

\* the steps of one call of collectAllReferencedEntities
PassStep == SeedSkip \/ SeedCall \/ CallSeen \/ CallEnter \/ Return \/ Finish

\* C3: the pass terminates, cycles included.  Every step of a pass lowers a natural
\* number, a pass that is not done can take a step, no AstEntity is expanded twice,
\* and for two exported classes that refer to each other (and to nothing else that
\* survives) the result is those two.
C3_Terminates ==
    /\ [][ pc = "seeding" => Measure' < Measure ]_vars
    /\ [] ( /\ pc = "seeding" => ENABLED PassStep
            /\ \A e \in AstEntities : expandCount[e] <= 1
            /\ ( /\ pc = "done"
                 /\ SurvivingDeclarations("X", releaseTimming) # { }
                 /\ SurvivingDeclarations("Y", releaseTimming) # { }
                 /\ ReachableFrom({ "X" }, releaseTimming) \subseteq { "X", "Y", "M" }
                 /\ UntrimmedSeeds(rootExportTrimmings) = { "X", "Y" } )
               => referencedCollectorEntities \in { << "X", "Y" >>, << "Y", "X" >> } )

\* X and Y are both exported and refer to each other; the pass is done and returned both
C3_Witness ==
    /\ pc = "done"
    /\ Result = { "X", "Y" }
    /\ UntrimmedSeeds(rootExportTrimmings) = { "X", "Y" }
    /\ expandCount["X"] = 1 /\ expandCount["Y"] = 1

\* C4: seeding.  The frame at the bottom of the stack is that of an entity with an export
\* name outside rootExportTrimmings, and when a pass is done every other entity of the
\* reduced set is reachable from such a seed other than itself.
C4_SeedsOnlyUntrimmedExports ==
    /\ stack # << >> => stack[1].astEntity \in UntrimmedSeeds(rootExportTrimmings)
    /\ pc = "done" =>
         \A e \in Result \ UntrimmedSeeds(rootExportTrimmings) :
             \E seed \in UntrimmedSeeds(rootExportTrimmings) \ { e } :
                 e \in ReachableFrom({ seed }, releaseTimming)

\* Y is exported only under a trimmed name and is in the reduced set all the same,
\* reached from X
C4_Witness ==
    /\ pc = "done"
    /\ "Y" \in Range(entities)
    /\ RegisteredNames(ce["Y"]) = { "Y" } /\ "Y" \in rootExportTrimmings
    /\ UntrimmedSeeds(rootExportTrimmings) = { "X" }
    /\ "Y" \in Result

\* C5: the threshold.  A declaration the pass met was skipped iff its tag is strictly
\* weaker than the target in Public > Beta > Alpha > Internal; None is never skipped, the
\* target tag itself is kept.
C5_Threshold ==
    \A l \in declLog :
        LET tag == program.astDeclarations[l.astSymbol][l.index].releaseTag
        IN  /\ l.kept <=> tag \notin WeakerTags(releaseTimming)
            /\ tag = None => l.kept
            /\ tag = releaseTimming => l.kept

\* a pass at threshold Beta met an Alpha declaration and skipped it, and a Beta one and
\* kept it
C5_Witness ==
    /\ releaseTimming = Beta
    /\ \E l \in declLog :
           /\ ~l.kept
           /\ program.astDeclarations[l.astSymbol][l.index].releaseTag = Alpha
    /\ \E l \in declLog :
           /\ l.kept
           /\ program.astDeclarations[l.astSymbol][l.index].releaseTag = Beta

\* C6: a sub-path import of the reduced set has its base in the reduced set: the traversal
\* recurses from an AstSubPathImport into its baseAstEntity.
C6_SubPathBaseCollected ==
    pc = "done" =>
        \A s \in AstSubPathImports \cap Result : program.baseAstEntity[s] \in Result

\* C7: the reduced set is closed under equals-import bases: with an AstImport whose
\* exportPath has more than one segment it holds that import's referenced base AstImport.
C7_EqualsImportBaseCollected ==
    pc = "done" =>
        \A i \in AstImports \cap Result :
            Len(exportPath[i]) > 1 => tryGetReferencedAstImport(i) \in Result

\* C8: the result is made of CollectorEntity objects of the collector's table, each that
\* of a referenced AstEntity; a referenced AstEntity without one is left out, every one
\* with one is in, and the conversion always completes.
C8_ResultOfCollectorEntities ==
    /\ pc = "done" =>
         /\ \A c \in Result :
                c \in Range(entities) /\ ce[c].astEntity \in Range(referencedAstEntities)
         /\ \A e \in Range(referencedAstEntities) :
                e \in Range(entities) => e \in Result
    /\ ( pc = "seeding" /\ stack = << >> /\ seedIndex > Len(entities) ) => ENABLED Finish

\* the member symbol M was referenced, has no CollectorEntity and is not in the result
C8_Witness ==
    /\ pc = "done"
    /\ "M" \in Range(referencedAstEntities)
    /\ tryGetCollectorEntity("M") = Undefined
    /\ "M" \notin Result /\ "X" \in Result

\* C9 as claimed: a pass leaves the entity table and, of every CollectorEntity, the export
\* names and their order, the local export names and nameForEmit unchanged.
C9_PassChangesNoEntity ==
    [][ pc = "seeding" =>
          /\ entities' = entities
          /\ \A e \in Range(entities) :
               /\ ce'[e]._exportNames = ce[e]._exportNames
               /\ ce'[e]._localExportNamesByParent = ce[e]._localExportNamesByParent
               /\ ce'[e]._nameForEmit = ce[e]._nameForEmit ]_vars

\* C9 amended: a pass leaves the entity table and, of every CollectorEntity, what the
\* exportNames getter yields (the names in sorted order, with their flags), the local
\* export names and nameForEmit unchanged; and its result is the reduced set of its
\* arguments, whatever pass ran before.
C9_PassLeaksNothing ==
    /\ [][ pc = "seeding" =>
             /\ entities' = entities
             /\ \A e \in Range(entities) :
                  /\ exportNames(ce'[e])._exportNames = exportNames(ce[e])._exportNames
                  /\ ce'[e]._singleExportName = ce[e]._singleExportName
                  /\ ce'[e]._localExportNamesByParent = ce[e]._localExportNamesByParent
                  /\ ce'[e]._nameForEmit = ce[e]._nameForEmit ]_vars
    /\ [] ( pc = "done" => Result = ReducedSet(releaseTimming, rootExportTrimmings) )

\* a pass is done on a collector where X was exported as Y before it was exported as X:
\* the pass sorted X's export names
C9_Witness ==
    /\ pc = "done"
    /\ Len(program.entryPointExports) = 2
    /\ program.entryPointExports[1] = [ name |-> "Y", astEntity |-> "X", isTypeOnlyExport |-> TRUE ]
    /\ program.entryPointExports[2] = [ name |-> "X", astEntity |-> "X", isTypeOnlyExport |-> FALSE ]
    /\ MapKeys(ce["X"]._exportNames) = << "X", "Y" >>
    /\ "X" \in Result

(***************************************************************************)
(* CollectorEntity on its own: any caller, any sequence of addExportName   *)
(* and addLocalExportName calls on a few entities, and the getters read in *)
(* between.                                                                *)
(***************************************************************************)
MaxCalls == 3

EntityPool == << "Ns", "X", "Y" >>

EntityExportNames == { "X", "Y" }

LocalExportNames == { "add" }

\* isTypeOnlyExport of the local export names registered
LocalTypeOnlyChoices == { FALSE }

\* get consumable(), lines 169-181.  `path` holds the entities whose getter is running:
\* a call on one of them repeats the call it is nested in, and the recursion ends with
\* the engine's RangeError (stack overflow).  touched: the entities whose
\* exportedFromEntryPoint was read.
RECURSIVE consumable(_, _)
RECURSIVE consumableOfParents(_, _, _)
consumable(entity, path) ==
    IF entity \in path
    THEN [ threw |-> TRUE, value |-> FALSE, touched |-> { } ]
    ELSE IF exportedFromEntryPoint(ce[entity])
    THEN [ threw |-> FALSE, value |-> TRUE, touched |-> { entity } ]
    ELSE LET rest == consumableOfParents(entity, 1, path \cup { entity })
         IN  [ rest EXCEPT !.touched = @ \cup { entity } ]

\* lines 174-178, from the i-th entry of _localExportNamesByParent on
consumableOfParents(entity, i, path) ==
    IF i > Len(ce[entity]._localExportNamesByParent)
    THEN [ threw |-> FALSE, value |-> FALSE, touched |-> { } ]
    ELSE LET entry == ce[entity]._localExportNamesByParent[i]
         IN  IF Len(entry.names) > 0
             THEN LET ofParent == consumable(entry.parent, path)
                  IN  IF ofParent.threw \/ ofParent.value
                      THEN ofParent
                      ELSE LET rest == consumableOfParents(entity, i + 1, path)
                           IN  [ rest EXCEPT !.touched = @ \cup ofParent.touched ]
             ELSE consumableOfParents(entity, i + 1, path)

\* getFirstExportingConsumableParent(), lines 187-194, from the i-th entry of
\* _localExportNamesByParent on: parent.consumable is read before the size test
RECURSIVE getFirstExportingConsumableParent(_, _)
getFirstExportingConsumableParent(entity, i) ==
    IF i > Len(ce[entity]._localExportNamesByParent)
    THEN [ threw |-> FALSE, value |-> Undefined, touched |-> { } ]
    ELSE LET entry == ce[entity]._localExportNamesByParent[i]
             ofParent == consumable(entry.parent, { })
         IN  IF ofParent.threw
             THEN [ threw |-> TRUE, value |-> Undefined, touched |-> ofParent.touched ]
             ELSE IF ofParent.value /\ Len(entry.names) > 0
             THEN [ threw |-> FALSE, value |-> entry.parent, touched |-> ofParent.touched ]
             ELSE LET rest == getFirstExportingConsumableParent(entity, i + 1)
                  IN  [ rest EXCEPT !.touched = @ \cup ofParent.touched ]

\* entity.addExportName(exportName, isTypeOnlyExport)
AddExportName(entity, exportName, isTypeOnlyExport) ==
    /\ pc = "entity" /\ callCount < MaxCalls
    /\ ce' = [ ce EXCEPT ![entity] = addExportName(@, exportName, isTypeOnlyExport) ]
    /\ callCount' = callCount + 1
    /\ registered' = [ registered EXCEPT ![entity] = SetAdd(@, exportName) ]
    /\ lastRead' = NoRead
    /\ UNCHANGED << program, pendingExports, entities, pc, passVars, toolVars, astObjects >>

\* entity.addLocalExportName(localExportName, isTypeOnlyExport, parent)
AddLocalExportName(entity, localExportName, isTypeOnlyExport, parent) ==
    /\ pc = "entity" /\ callCount < MaxCalls
    /\ ce' = [ ce EXCEPT ![entity] =
                 addLocalExportName(@, localExportName, isTypeOnlyExport, parent) ]
    /\ callCount' = callCount + 1
    /\ lastRead' = NoRead
    /\ UNCHANGED << program, pendingExports, entities, pc, passVars, toolVars, astObjects, registered >>

\* entity.consumable is read
ReadConsumable(entity) ==
    /\ pc = "entity"
    /\ LET outcome == consumable(entity, { })
       IN  /\ lastRead' = [ getter |-> "consumable", entity |-> entity,
                            threw |-> outcome.threw, value |-> outcome.value ]
           /\ ce' = [ e \in DOMAIN ce |->
                        IF e \in outcome.touched THEN exportNames(ce[e]) ELSE ce[e] ]
    /\ UNCHANGED << program, pendingExports, entities, pc, passVars, toolVars, astObjects, callCount, registered >>

\* entity.getFirstExportingConsumableParent() is called
GetFirstExportingConsumableParent(entity) ==
    /\ pc = "entity"
    /\ LET outcome == getFirstExportingConsumableParent(entity, 1)
       IN  /\ lastRead' = [ getter |-> "getFirstExportingConsumableParent", entity |-> entity,
                            threw |-> outcome.threw, value |-> outcome.value ]
           /\ ce' = [ e \in DOMAIN ce |->
                        IF e \in outcome.touched THEN exportNames(ce[e]) ELSE ce[e] ]
    /\ UNCHANGED << program, pendingExports, entities, pc, passVars, toolVars, astObjects, callCount, registered >>

\* entity.exportedFromEntryPoint is read
ReadExportedFromEntryPoint(entity) ==
    /\ pc = "entity"
    /\ lastRead' = [ getter |-> "exportedFromEntryPoint", entity |-> entity,
                     threw |-> FALSE, value |-> exportedFromEntryPoint(ce[entity]) ]
    /\ ce' = [ ce EXCEPT ![entity] = exportNames(@) ]
    /\ UNCHANGED << program, pendingExports, entities, pc, passVars, toolVars, astObjects, callCount, registered >>

\* entity.exported is read
ReadExported(entity) ==
    /\ pc = "entity"
    /\ lastRead' = [ getter |-> "exported", entity |-> entity,
                     threw |-> FALSE, value |-> exported(ce[entity]) ]
    /\ ce' = [ ce EXCEPT ![entity] = exportNames(@) ]
    /\ UNCHANGED << program, pendingExports, entities, pc, passVars, toolVars, astObjects, callCount, registered >>

InitEntity ==
    /\ program = Undefined
    /\ pendingExports = << >>
    /\ entities = EntityPool
    /\ ce = [ e \in Range(EntityPool) |-> NewCollectorEntity(e) ]
    /\ pc = "entity"
    /\ releaseTimming = None
    /\ rootExportTrimmings = { }
    /\ alreadySeenAstEntities = { }
    /\ referencedAstEntities = << >>
    /\ referencedCollectorEntities = << >>
    /\ seedIndex = 0
    /\ stack = << >>
    /\ expandCount = [ e \in AstEntities |-> 0 ]
    /\ declLog = { }
    /\ lastRead = NoRead
    /\ callCount = 0
    /\ registered = [ e \in Range(EntityPool) |-> << >> ]
    /\ astObjects = << >>
    /\ ToolsIdle

NextEntity ==
    \/ \E entity \in Range(EntityPool), exportName \in EntityExportNames,
          isTypeOnlyExport \in BOOLEAN :
           AddExportName(entity, exportName, isTypeOnlyExport)
    \/ \E entity \in Range(EntityPool), localExportName \in LocalExportNames,
          isTypeOnlyExport \in LocalTypeOnlyChoices, parent \in Range(EntityPool) :
           AddLocalExportName(entity, localExportName, isTypeOnlyExport, parent)
    \/ \E entity \in Range(EntityPool) : ReadConsumable(entity)
    \/ \E entity \in Range(EntityPool) : GetFirstExportingConsumableParent(entity)
    \/ \E entity \in Range(EntityPool) : ReadExportedFromEntryPoint(entity)
    \/ \E entity \in Range(EntityPool) : ReadExported(entity)

SpecEntity == InitEntity /\ [][NextEntity]_vars

\* the least set of entities closed under the two clauses of `consumable`
RECURSIVE ConsumableClosure(_)
ConsumableClosure(S) ==
    LET more == { e \in Range(entities) :
                    \/ Len(ce[e]._exportNames) > 0
                    \/ \E i \in 1..Len(ce[e]._localExportNamesByParent) :
                          /\ Len(ce[e]._localExportNamesByParent[i].names) > 0
                          /\ ce[e]._localExportNamesByParent[i].parent \in S }
    IN  IF more \subseteq S THEN S ELSE ConsumableClosure(S \cup more)

\* C10: consumable read after any sequence of addExportName and addLocalExportName calls
\* yields true exactly when the entity has an entry point export name or a registered
\* parent with a non-empty local export map that is itself consumable, and false otherwise.
C10_ConsumableIffExportedOrViaParent ==
    lastRead.getter = "consumable" =>
        /\ ~lastRead.threw
        /\ lastRead.value = ( lastRead.entity \in ConsumableClosure({ }) )

\* the parents registered for an entity by addLocalExportName
ParentsOf(entity) ==
    { ce[entity]._localExportNamesByParent[i].parent :
        i \in 1..Len(ce[entity]._localExportNamesByParent) }

\* the direct and indirect parents of the entities of S
RECURSIVE AncestorsOf(_)
AncestorsOf(S) ==
    LET more == UNION { ParentsOf(e) : e \in S }
    IN  IF more \subseteq S THEN S ELSE AncestorsOf(S \cup more)

\* C11: a read of consumable after any sequence of addExportName and addLocalExportName
\* calls ends with a value, the entity read being no direct or indirect parent of
\* itself: the recursion over the parents is finite.
C11_ConsumableTerminates ==
    lastRead.getter = "consumable" =>
        /\ lastRead.entity \notin AncestorsOf(ParentsOf(lastRead.entity))
        /\ ~lastRead.threw

\* C12: exportedFromEntryPoint reads true exactly when an export name was registered;
\* exported reads true exactly when that holds or the local export map of some parent
\* is not empty; an entity whose consumable is true has exported true, and an entity
\* whose exportedFromEntryPoint is true has consumable true.
C12_ExportedGetters ==
    /\ lastRead.getter = "exportedFromEntryPoint" =>
           ( lastRead.value <=> Len(registered[lastRead.entity]) > 0 )
    /\ lastRead.getter = "exported" =>
           ( lastRead.value <=>
                \/ Len(registered[lastRead.entity]) > 0
                \/ \E i \in 1..Len(ce[lastRead.entity]._localExportNamesByParent) :
                      ce[lastRead.entity]._localExportNamesByParent[i].names # << >> )
    /\ pc = "entity" =>
           \A e \in Range(entities) :
               LET c == consumable(e, { })
               IN  /\ ( ~c.threw /\ c.value ) => exported(ce[e])
                   /\ exportedFromEntryPoint(ce[e]) => ( ~c.threw /\ c.value )

\* exported was read true on an entity that has no export name and is not consumable:
\* it is exported from a parent only
C12_Witness ==
    /\ lastRead.getter = "exported" /\ lastRead.value
    /\ registered[lastRead.entity] = << >>
    /\ ~consumable(lastRead.entity, { }).threw
    /\ ~consumable(lastRead.entity, { }).value
    /\ \E e \in Range(entities) :
          /\ registered[e] # << >>
          /\ consumable(e, { }).value /\ exported(ce[e])

(***************************************************************************)
(* CollectorEntity: the export names and the emitted name of an entity of  *)
(* a local symbol and of an entity of an import, under any sequence of     *)
(* addExportName calls and nameForEmit assignments.                        *)
(***************************************************************************)
NamedEntityPool == << "X", "ImpDeep" >>

NamedExportNames == { "X", "Y", "default" }

NamesForEmit == { Undefined, "", "X", "_X" }

\* entity.nameForEmit = value
SetNameForEmit(entity, value) ==
    /\ pc = "entity" /\ callCount < MaxCalls
    /\ ce' = [ ce EXCEPT ![entity] = setNameForEmit(@, value) ]
    /\ callCount' = callCount + 1
    /\ lastRead' = NoRead
    /\ UNCHANGED << program, pendingExports, entities, pc, passVars, toolVars, astObjects, registered >>

\* entity.shouldInlineExport is read
ReadShouldInlineExport(entity) ==
    /\ pc = "entity"
    /\ lastRead' = [ getter |-> "shouldInlineExport", entity |-> entity,
                     threw |-> FALSE, value |-> shouldInlineExport(ce[entity]) ]
    /\ UNCHANGED << program, pendingExports, entities, ce, pc, passVars, toolVars, astObjects, callCount, registered >>

\* entity.singleExportName is read
ReadSingleExportName(entity) ==
    /\ pc = "entity"
    /\ lastRead' = [ getter |-> "singleExportName", entity |-> entity,
                     threw |-> FALSE, value |-> ce[entity]._singleExportName ]
    /\ UNCHANGED << program, pendingExports, entities, ce, pc, passVars, toolVars, astObjects, callCount, registered >>

\* entity.exportNames is read and iterated
ReadExportNames(entity) ==
    /\ pc = "entity"
    /\ lastRead' = [ getter |-> "exportNames", entity |-> entity,
                     threw |-> FALSE, value |-> exportNames(ce[entity])._exportNames ]
    /\ ce' = [ ce EXCEPT ![entity] = exportNames(@) ]
    /\ UNCHANGED << program, pendingExports, entities, pc, passVars, toolVars, astObjects, callCount, registered >>

\* entity.getSortKey() is called
GetSortKey(entity) ==
    /\ pc = "entity"
    /\ lastRead' = [ getter |-> "getSortKey", entity |-> entity, threw |-> FALSE,
                     value |-> getSortKey(ce[entity])._sortKey,
                     cached |-> ~Falsy(ce[entity]._sortKey) ]
    /\ ce' = [ ce EXCEPT ![entity] = getSortKey(@) ]
    /\ UNCHANGED << program, pendingExports, entities, pc, passVars, toolVars, astObjects, callCount, registered >>

InitNames ==
    /\ program = Undefined
    /\ pendingExports = << >>
    /\ entities = NamedEntityPool
    /\ ce = [ e \in Range(NamedEntityPool) |-> NewCollectorEntity(e) ]
    /\ pc = "entity"
    /\ releaseTimming = None
    /\ rootExportTrimmings = { }
    /\ alreadySeenAstEntities = { }
    /\ referencedAstEntities = << >>
    /\ referencedCollectorEntities = << >>
    /\ seedIndex = 0
    /\ stack = << >>
    /\ expandCount = [ e \in AstEntities |-> 0 ]
    /\ declLog = { }
    /\ lastRead = NoRead
    /\ callCount = 0
    /\ registered = [ e \in Range(NamedEntityPool) |-> << >> ]
    /\ astObjects = << >>
    /\ ToolsIdle

NextNames ==
    \/ \E entity \in Range(NamedEntityPool), exportName \in NamedExportNames,
          isTypeOnlyExport \in BOOLEAN :
           AddExportName(entity, exportName, isTypeOnlyExport)
    \/ \E entity \in Range(NamedEntityPool), value \in NamesForEmit :
           SetNameForEmit(entity, value)
    \/ \E entity \in Range(NamedEntityPool) : ReadShouldInlineExport(entity)
    \/ \E entity \in Range(NamedEntityPool) : ReadSingleExportName(entity)
    \/ \E entity \in Range(NamedEntityPool) : ReadExportNames(entity)
    \/ \E entity \in Range(NamedEntityPool) : GetSortKey(entity)

SpecNames == InitNames /\ [][NextNames]_vars

\* C13: shouldInlineExport reads true only on the entity of a local AstSymbol with
\* exactly one export name registered, that name not type-only, and nameForEmit
\* unassigned or equal to that name; an entity exported as X and as Y has the export
\* names X and Y, no singleExportName and shouldInlineExport false.
C13_ShouldInlineExport ==
    /\ ( lastRead.getter = "shouldInlineExport" /\ lastRead.value ) =>
          LET c == ce[lastRead.entity]
              names == registered[lastRead.entity]
          IN  /\ c.astEntity \in AstSymbols /\ c.astEntity \notin AstImports
              /\ Len(names) = 1
              /\ \A i \in 1..Len(c._exportNames) :
                    c._exportNames[i].name = names[1] => ~c._exportNames[i].isTypeOnlyExport
              /\ c._nameForEmit = Undefined \/ c._nameForEmit = names[1]
    /\ \A e \in Range(entities) :
          Range(registered[e]) = { "X", "Y" } =>
              /\ RegisteredNames(ce[e]) = { "X", "Y" }
              /\ ce[e]._singleExportName = Undefined
              /\ ~shouldInlineExport(ce[e])

\* shouldInlineExport was read true on the entity of the local symbol X, named X; the
\* entity of an import has one export name too and is not inlined
C13_Witness ==
    /\ lastRead.getter = "shouldInlineExport" /\ lastRead.value
    /\ lastRead.entity = "X"
    /\ registered["X"] = << "X" >>
    /\ ce["X"]._nameForEmit = "X"
    /\ registered["ImpDeep"] = << "X" >> /\ ~shouldInlineExport(ce["ImpDeep"])

\* C14: singleExportName is defined exactly while one distinct export name is
\* registered, and is then that name; repeated names change nothing; once a second
\* distinct name is registered it is undefined and stays undefined.
C14_SingleExportName ==
    /\ [] ( /\ \A e \in Range(entities) :
                  ce[e]._singleExportName =
                      IF Len(registered[e]) = 1 THEN registered[e][1] ELSE Undefined
            /\ lastRead.getter = "singleExportName" =>
                  lastRead.value =
                      IF Len(registered[lastRead.entity]) = 1
                      THEN registered[lastRead.entity][1]
                      ELSE Undefined )
    /\ [][ \A e \in Range(entities) :
              Len(registered[e]) >= 2 =>
                  ce'[e]._singleExportName = Undefined /\ Len(registered'[e]) >= 2 ]_vars

\* singleExportName was read undefined on an entity with two distinct names, after a
\* third addExportName call that repeated one of them
C14_Witness ==
    /\ lastRead.getter = "singleExportName" /\ lastRead.value = Undefined
    /\ Len(registered[lastRead.entity]) = 2
    /\ callCount = 3
    /\ \A e \in Range(entities) \ { lastRead.entity } :
          registered[e] = << >> /\ ce[e]._nameForEmit = Undefined
    /\ ce[lastRead.entity]._nameForEmit = Undefined

\* C15 as claimed: iterating exportNames yields the distinct export names in the order
\* in which they were first registered.
C15_ExportNamesInInsertionOrder ==
    lastRead.getter = "exportNames" => MapKeys(lastRead.value) = registered[lastRead.entity]

\* C15 amended: iterating exportNames yields the distinct export names registered, each
\* once, in ascending string order.
C15_ExportNamesSorted ==
    lastRead.getter = "exportNames" =>
        LET keys == MapKeys(lastRead.value)
        IN  /\ Range(keys) = Range(registered[lastRead.entity])
            /\ Len(keys) = Len(registered[lastRead.entity])
            /\ \A i, j \in 1..Len(keys) : i < j => StringRank(keys[i]) < StringRank(keys[j])

\* exportNames was read on an entity exported as Y and then as X
C15_Witness ==
    /\ lastRead.getter = "exportNames"
    /\ registered[lastRead.entity] = << "Y", "X" >>
    /\ MapKeys(lastRead.value) = << "X", "Y" >>

\* C16: after any interleaving of nameForEmit assignments and getSortKey calls,
\* getSortKey returns the underscore-ignoring sort key of the current nameForEmit, or
\* of the entity's localName while nameForEmit is undefined or empty.
C16_SortKeyOfCurrentName ==
    lastRead.getter = "getSortKey" =>
        LET c == ce[lastRead.entity]
            name == IF c._nameForEmit = Undefined \/ c._nameForEmit = ""
                    THEN localName(c.astEntity)
                    ELSE c._nameForEmit
        IN  lastRead.value =
                IF Len(name) > 0 /\ SubSeq(name, 1, 1) = "_"
                THEN SubSeq(name, 2, Len(name))
                ELSE name

\* getSortKey returned the cached key X of the name _X, assigned as the second name
C16_Witness ==
    /\ lastRead.getter = "getSortKey" /\ lastRead.cached
    /\ lastRead.value = "X"
    /\ ce[lastRead.entity]._nameForEmit = "_X"
    /\ lastRead.entity = "ImpDeep"
    /\ callCount >= 2 /\ \A e \in Range(entities) : registered[e] = << >>
    /\ ce["X"]._nameForEmit = Undefined

(***************************************************************************)
(* AstSubPathImport and AstImport: the constructors and AstImport.getKey,  *)
(* applied to two option objects.  An optional property that is omitted is *)
(* a field the options record does not have.                               *)
(***************************************************************************)
MaxPathLen == 2

\* enum AstImportKind
DefaultImport == 0
NamedImport == 1
StarImport == 2
EqualsImport == 3

AstImportKinds == { DefaultImport, NamedImport, StarImport, EqualsImport }

ModulePaths == { "m", "n" }

PathNames == { "x", "y" }

ExportPaths == SeqsOver(PathNames, MaxPathLen)

LocalNames == { "", "L" }

BaseAstEntities == { "X", "ImpBase" }

IAstImportOptions ==
    [ importKind : AstImportKinds, modulePath : ModulePaths, exportName : PathNames,
      isTypeOnly : { FALSE } ]
    \cup
    [ importKind : AstImportKinds, modulePath : ModulePaths, exportName : PathNames,
      exportPath : ExportPaths, isTypeOnly : { FALSE } ]

IAstSubPathImportOptions ==
    [ astEntity : BaseAstEntities, exportPath : ExportPaths, isImportType : BOOLEAN ]
    \cup
    [ astEntity : BaseAstEntities, exportPath : ExportPaths, localName : LocalNames,
      isImportType : BOOLEAN ]

\* whether the options object has the property
Has(options, property) == property \in DOMAIN options

\* Array.prototype.join
RECURSIVE Join(_, _)
Join(array, separator) ==
    IF array = << >> THEN ""
    ELSE IF Len(array) = 1 THEN array[1]
    ELSE array[1] \o separator \o Join(Tail(array), separator)

\* Array.prototype.slice(1)
Slice1(array) == IF array = << >> THEN << >> ELSE Tail(array)

\* mutant of getKey: a star import without exportPath is keyed by its exportName
getKeyStarByExportName(options) ==
    CASE options.importKind \in { DefaultImport, NamedImport } ->
           options.modulePath \o ":" \o
               ( IF Has(options, "exportPath")
                 THEN Join(options.exportPath, ".") ELSE options.exportName )
      [] options.importKind = StarImport ->
           options.modulePath \o ":*" \o
               ( IF Has(options, "exportPath")
                 THEN Join(Slice1(options.exportPath), ".") ELSE options.exportName )
      [] options.importKind = EqualsImport ->
           options.modulePath \o ":=" \o
               ( IF Has(options, "exportPath")
                 THEN Join(Slice1(options.exportPath), ".") ELSE "" )
      [] OTHER -> "InternalError"

\* AstImport.getKey(options), lines 251-268
getKey(options) ==
    CASE options.importKind = DefaultImport ->
           options.modulePath \o ":" \o
               ( IF Has(options, "exportPath")
                 THEN Join(options.exportPath, ".") ELSE options.exportName )
      [] options.importKind = NamedImport ->
           options.modulePath \o ":" \o
               ( IF Has(options, "exportPath")
                 THEN Join(options.exportPath, ".") ELSE options.exportName )
      [] options.importKind = StarImport ->
           options.modulePath \o ":*" \o
               ( IF Has(options, "exportPath")
                 THEN Join(Slice1(options.exportPath), ".") ELSE "" )
      [] options.importKind = EqualsImport ->
           options.modulePath \o ":=" \o
               ( IF Has(options, "exportPath")
                 THEN Join(Slice1(options.exportPath), ".") ELSE "" )
      [] OTHER -> "InternalError"

\* new AstImport(options), lines 228-238: the outcome of the call
AstImportConstructor(options) ==
    [ class |-> "AstImport", options |-> options, threw |-> FALSE,
      object |-> [ importKind |-> options.importKind,
                   modulePath |-> options.modulePath,
                   exportName |-> options.exportName,
                   exportPath |-> IF Has(options, "exportPath")
                                  THEN options.exportPath
                                  ELSE << options.exportName >>,
                   isTypeOnlyEverywhere |-> options.isTypeOnly,
                   key |-> getKey(options) ] ]

\* mutant of AstSubPathImportConstructor: the test of lines 62-64 is missing
AstSubPathImportConstructorUnchecked(options) ==
    [ class |-> "AstSubPathImport", options |-> options, threw |-> FALSE,
      object |-> [ baseAstEntity |-> options.astEntity,
                   exportPath |-> options.exportPath,
                   _localName |-> IF Has(options, "localName")
                                  THEN options.localName
                                  ELSE IF options.exportPath = << >> THEN Undefined
                                  ELSE options.exportPath[Len(options.exportPath)],
                   isImportTypeEverywhere |-> options.isImportType ] ]

\* new AstSubPathImport(options), lines 59-72: the outcome of the call
AstSubPathImportConstructor(options) ==
    IF Len(options.exportPath) = 0
    THEN [ class |-> "AstSubPathImport", options |-> options, threw |-> TRUE,
           error |-> "InternalError" ]
    ELSE [ class |-> "AstSubPathImport", options |-> options, threw |-> FALSE,
           object |-> [ baseAstEntity |-> options.astEntity,
                        exportPath |-> options.exportPath,
                        _localName |-> IF Has(options, "localName")
                                       THEN options.localName
                                       ELSE options.exportPath[Len(options.exportPath)],
                        isImportTypeEverywhere |-> options.isImportType ] ]

NewAstImport(options) ==
    /\ pc = "import" /\ Len(astObjects) < 2
    /\ astObjects' = Append(astObjects, AstImportConstructor(options))
    /\ UNCHANGED << program, pendingExports, entities, ce, pc, passVars, toolVars, lastRead,
                    callCount, registered >>

NewAstSubPathImport(options) ==
    /\ pc = "import" /\ Len(astObjects) < 2
    /\ astObjects' = Append(astObjects, AstSubPathImportConstructor(options))
    /\ UNCHANGED << program, pendingExports, entities, ce, pc, passVars, toolVars, lastRead,
                    callCount, registered >>

InitImport ==
    /\ program = Undefined
    /\ pendingExports = << >>
    /\ entities = << >>
    /\ ce = << >>
    /\ pc = "import"
    /\ releaseTimming = None
    /\ rootExportTrimmings = { }
    /\ alreadySeenAstEntities = { }
    /\ referencedAstEntities = << >>
    /\ referencedCollectorEntities = << >>
    /\ seedIndex = 0
    /\ stack = << >>
    /\ expandCount = [ e \in AstEntities |-> 0 ]
    /\ declLog = { }
    /\ lastRead = NoRead
    /\ callCount = 0
    /\ registered = << >>
    /\ astObjects = << >>
    /\ ToolsIdle

NextImport ==
    \/ \E options \in IAstImportOptions : NewAstImport(options)
    \/ \E options \in IAstSubPathImportOptions : NewAstSubPathImport(options)

SpecImport == InitImport /\ [][NextImport]_vars

\* the outcomes of the constructor calls of one class
OutcomesOf(class) == { o \in Range(astObjects) : o.class = class }

\* C17: constructing an AstSubPathImport with an empty exportPath throws InternalError
\* and makes no object; every AstSubPathImport made has an exportPath of at least one
\* segment and the localName supplied or, none supplied, the last segment.
C17_SubPathImportConstructor ==
    \A o \in OutcomesOf("AstSubPathImport") :
        /\ o.threw <=> o.options.exportPath = << >>
        /\ o.threw => o.error = "InternalError" /\ ~Has(o, "object")
        /\ ~o.threw =>
              /\ Len(o.object.exportPath) >= 1
              /\ o.object.exportPath = o.options.exportPath
              /\ o.object._localName =
                    IF Has(o.options, "localName")
                    THEN o.options.localName
                    ELSE o.options.exportPath[Len(o.options.exportPath)]

\* one construction with an empty exportPath failed, and one without localName made
\* an object named after the last segment of its path
C17_Witness ==
    /\ \E o \in OutcomesOf("AstSubPathImport") : o.threw
    /\ \E o \in OutcomesOf("AstSubPathImport") :
          /\ ~o.threw /\ ~Has(o.options, "localName")
          /\ o.options.exportPath = << "x", "y" >> /\ o.object._localName = "y"

\* C18: every AstImport has an exportPath of at least one segment, whatever the
\* options; with exportPath omitted it is the one segment exportName.
C18_ImportExportPathNonEmpty ==
    \A o \in OutcomesOf("AstImport") :
        /\ ~o.threw /\ Len(o.object.exportPath) >= 1
        /\ ~Has(o.options, "exportPath") => o.object.exportPath = << o.options.exportName >>

\* C19: two AstImport option objects of the same importKind, modulePath and
\* (resulting) exportPath have equal keys; so omitting exportPath gives the key of
\* passing exportPath = [exportName], for each import kind.
C19_SameExportSameKey ==
    \A a, b \in OutcomesOf("AstImport") :
        /\ ( /\ a.object.importKind = b.object.importKind
             /\ a.object.modulePath = b.object.modulePath
             /\ a.object.exportPath = b.object.exportPath )
           => a.object.key = b.object.key
        /\ ( /\ a.options.importKind = b.options.importKind
             /\ a.options.modulePath = b.options.modulePath
             /\ a.options.exportName = b.options.exportName
             /\ ~Has(a.options, "exportPath")
             /\ Has(b.options, "exportPath")
             /\ b.options.exportPath = << b.options.exportName >> )
           => a.object.key = b.object.key

\* a star import made without exportPath and one made with exportPath = [exportName]
C19_Witness ==
    /\ Len(astObjects) = 2
    /\ astObjects[1].class = "AstImport" /\ astObjects[2].class = "AstImport"
    /\ astObjects[1].options.importKind = StarImport
    /\ astObjects[2].options.importKind = StarImport
    /\ astObjects[1].options.modulePath = astObjects[2].options.modulePath
    /\ ~Has(astObjects[1].options, "exportPath")
    /\ Has(astObjects[2].options, "exportPath")
    /\ astObjects[2].options.exportPath = << astObjects[1].options.exportName >>
    /\ astObjects[1].object.key = astObjects[2].object.key

\* C30: the keys do not merge distinct external exports.  Two AstImports that differ in
\* importKind (default, named, star, equals), in modulePath, or, both being default or
\* named imports, in exportPath, have different keys; so a DefaultImport and a NamedImport
\* of the same module with the same exportName have different keys.
C30_KeysSeparateExports ==
    \A a, b \in OutcomesOf("AstImport") :
        ( \/ a.object.importKind # b.object.importKind
          \/ a.object.modulePath # b.object.modulePath
          \/ /\ a.object.importKind \in { DefaultImport, NamedImport }
             /\ b.object.importKind \in { DefaultImport, NamedImport }
             /\ a.object.exportPath # b.object.exportPath )
        => a.object.key # b.object.key

(***************************************************************************)
(* The Name Assigner (Collector._makeUniqueNames): every entity of the     *)
(* collected set gets its nameForEmit, in table order.  The preferred name *)
(* is the local name; local names shared by declarations of different      *)
(* files get the file name as a suffix (Prop__propA); a name that is taken *)
(* or reserved gets the first free numeric suffix (Prop_2).                *)
(***************************************************************************)
AssignedEntityPool == << "X", "Y", "Z" >>

DeclaredLocalNames == { "Prop", "Prop__propA" }

SourceFiles == { "propA", "propB" }

ReservedNameChoices == SUBSET { "Prop", "Prop__propB" }

\* the collected sets: no file declares one local name twice
CollectedSets ==
    { p \in [ localNames : [ Range(AssignedEntityPool) -> DeclaredLocalNames ],
              sourceFiles : [ Range(AssignedEntityPool) -> SourceFiles ],
              reservedNames : ReservedNameChoices ] :
        \A a, b \in Range(AssignedEntityPool) :
            ( a # b /\ p.sourceFiles[a] = p.sourceFiles[b] )
                => p.localNames[a] # p.localNames[b] }

\* the decimal numeral of a number below ten
Numeral(n) == SubSeq("0123456789", n + 1, n + 1)

\* the names given so far
UsedNames == { ce[e]._nameForEmit : e \in { x \in Range(entities) : ce[x]._nameForEmit # Undefined } }

\* the name before it is made unique: the local name, with the file name when another
\* file declares the same local name
IdealNameForEmit(entity) ==
    IF \E other \in Range(entities) \ { entity } :
          program.localNames[other] = program.localNames[entity]
    THEN program.localNames[entity] \o "__" \o program.sourceFiles[entity]
    ELSE program.localNames[entity]

\* mutant of UniqueNameForEmit: the ideal name is taken as it is
UniqueNameForEmitUnchecked(ideal, suffix, taken) == ideal

\* the ideal name, or the ideal name with the first numeric suffix that is not taken
RECURSIVE UniqueNameForEmit(_, _, _)
UniqueNameForEmit(ideal, suffix, taken) ==
    LET candidate == IF suffix = 1 THEN ideal ELSE ideal \o "_" \o Numeral(suffix)
    IN  IF candidate \in taken
        THEN UniqueNameForEmit(ideal, suffix + 1, taken)
        ELSE candidate

\* the next entity of the table gets its name
AssignNameForEmit ==
    /\ pc = "assign"
    /\ \E i \in 1..Len(entities) :
          /\ ce[entities[i]]._nameForEmit = Undefined
          /\ \A j \in 1..(i - 1) : ce[entities[j]]._nameForEmit # Undefined
          /\ ce' = [ ce EXCEPT ![entities[i]] =
                       setNameForEmit(@, UniqueNameForEmit(IdealNameForEmit(entities[i]), 1,
                                                           UsedNames \cup program.reservedNames)) ]
          /\ pc' = IF i = Len(entities) THEN "assigned" ELSE "assign"
    /\ UNCHANGED << program, pendingExports, entities, passVars, callerVars >>

InitAssign ==
    /\ program \in CollectedSets
    /\ pendingExports = << >>
    /\ entities = AssignedEntityPool
    /\ ce = [ e \in Range(AssignedEntityPool) |-> NewCollectorEntity(e) ]
    /\ pc = "assign"
    /\ releaseTimming = None
    /\ rootExportTrimmings = { }
    /\ alreadySeenAstEntities = { }
    /\ referencedAstEntities = << >>
    /\ referencedCollectorEntities = << >>
    /\ seedIndex = 0
    /\ stack = << >>
    /\ expandCount = [ e \in AstEntities |-> 0 ]
    /\ declLog = { }
    /\ lastRead = NoRead
    /\ callCount = 0
    /\ registered = << >>
    /\ astObjects = << >>
    /\ ToolsIdle

NextAssign == AssignNameForEmit

SpecAssign == InitAssign /\ [][NextAssign]_vars

\* C20: once the names are assigned, the nameForEmit values of the entities are
\* pairwise distinct and none is a reserved name, also when declarations of different
\* files share a local name and get the file name as a suffix.
C20_NamesUnique ==
    pc = "assigned" =>
        /\ \A e \in Range(entities) :
              /\ ce[e]._nameForEmit # Undefined
              /\ ce[e]._nameForEmit \notin program.reservedNames
        /\ \A a, b \in Range(entities) :
              a # b => ce[a]._nameForEmit # ce[b]._nameForEmit

\* two declarations named Prop of the files propA and propB got the file names as
\* suffixes, and the suffixed name of one was taken by a third declaration's local name
C20_Witness ==
    /\ pc = "assigned"
    /\ program.localNames["X"] = "Prop__propA"
    /\ program.localNames["Y"] = "Prop" /\ program.sourceFiles["Y"] = "propA"
    /\ program.localNames["Z"] = "Prop" /\ program.sourceFiles["Z"] = "propB"
    /\ ce["X"]._nameForEmit = "Prop__propA"
    /\ ce["Y"]._nameForEmit = "Prop__propA_2"
    /\ ce["Z"]._nameForEmit = "Prop__propB"

(***************************************************************************)
(* DtsEmitHelpers.emitImport (generators/utils.ts, second file, lines      *)
(* 88-151): one call on a StringWriter that may already hold text.         *)
(***************************************************************************)
\* an importKind outside the enum, which reaches the default branch of the switch
UnknownImportKind == 4

EmittedImportKinds == AstImportKinds \cup { UnknownImportKind }

EmittedNames == { "x", "N" }

\* the AstImport objects handed to emitImport
EmittedAstImports ==
    [ importKind : EmittedImportKinds, modulePath : { "m" }, exportName : { "x" },
      exportPath : ExportPaths, isTypeOnlyEverywhere : BOOLEAN ]

\* the collector as emitImport sees it: what tryGetReferencedAstImport returns for the
\* import, and the entity tryGetCollectorEntity returns for that base import
EmitCollectors ==
    { [ unresolved |-> TRUE ] }
    \cup [ referencedAstImport : { [ modulePath |-> "m", exportName |-> "x" ] } ]
    \cup [ referencedAstImport : { [ modulePath |-> "m", exportName |-> "x" ] },
           referencedCollectorEntity : [ nameForEmit : { "B" } ] ]

\* the text already in the writer
WrittenBefore == { "", "// rollup\n" }

\* StringWriter.write and StringWriter.writeLine
write(writer, text) == writer \o text

writeLine(writer, text) == writer \o text \o "\n"

\* mutant of importPrefix: the type-only form is never used
importPrefixPlain(astImport) == "import"

\* line 119
importPrefix(astImport) == IF astImport.isTypeOnlyEverywhere THEN "import type" ELSE "import"

\* lines 93-116: the import of a path below a base import
emitSubPathImport(writer, collector, collectorEntity, astImport) ==
    IF ~Has(collector, "referencedAstImport")
    THEN [ threw |-> TRUE, error |-> "Error", stringWriter |-> writer ]
    ELSE IF ~Has(collector, "referencedCollectorEntity")
    THEN [ threw |-> TRUE, error |-> "Error", stringWriter |-> writer ]
    ELSE [ threw |-> FALSE,
           stringWriter |->
               writeLine(writer,
                         "import " \o collectorEntity.nameForEmit \o " = "
                         \o collector.referencedCollectorEntity.nameForEmit \o "."
                         \o Join(Slice1(astImport.exportPath), ".") \o ";") ]

\* lines 119-150: the import statement of an import kind
emitImportOfKind(writer, collectorEntity, astImport) ==
    CASE astImport.importKind = DefaultImport ->
           [ threw |-> FALSE,
             stringWriter |->
                 writeLine(
                     IF collectorEntity.nameForEmit # astImport.exportName
                     THEN write(writer, importPrefix(astImport) \o " { default as "
                                        \o collectorEntity.nameForEmit \o " }")
                     ELSE write(writer, importPrefix(astImport) \o " " \o astImport.exportName),
                     " from '" \o astImport.modulePath \o "';") ]
      [] astImport.importKind = NamedImport ->
           [ threw |-> FALSE,
             stringWriter |->
                 writeLine(
                     IF collectorEntity.nameForEmit # astImport.exportName
                     THEN write(writer, importPrefix(astImport) \o " { " \o astImport.exportName
                                        \o " as " \o collectorEntity.nameForEmit \o " }")
                     ELSE write(writer, importPrefix(astImport) \o " { "
                                        \o astImport.exportName \o " }"),
                     " from '" \o astImport.modulePath \o "';") ]
      [] astImport.importKind = StarImport ->
           [ threw |-> FALSE,
             stringWriter |->
                 writeLine(writer, importPrefix(astImport) \o " * as "
                                   \o collectorEntity.nameForEmit
                                   \o " from '" \o astImport.modulePath \o "';") ]
      [] astImport.importKind = EqualsImport ->
           [ threw |-> FALSE,
             stringWriter |->
                 writeLine(writer, importPrefix(astImport) \o " "
                                   \o collectorEntity.nameForEmit
                                   \o " = require('" \o astImport.modulePath \o "');") ]
      [] OTHER -> [ threw |-> TRUE, error |-> "InternalError", stringWriter |-> writer ]

\* mutant of emitImport: the left side of the statement is written before the base
\* import is looked up
emitImportWritingFirst(writer, collector, collectorEntity, astImport) ==
    IF Len(astImport.exportPath) > 1
    THEN LET started == write(writer, "import " \o collectorEntity.nameForEmit \o " = ")
             result == emitSubPathImport(writer, collector, collectorEntity, astImport)
         IN  IF result.threw THEN [ result EXCEPT !.stringWriter = started ] ELSE result
    ELSE emitImportOfKind(writer, collectorEntity, astImport)

\* DtsEmitHelpers.emitImport, lines 88-151
emitImport(writer, collector, collectorEntity, astImport) ==
    IF Len(astImport.exportPath) > 1
    THEN emitSubPathImport(writer, collector, collectorEntity, astImport)
    ELSE emitImportOfKind(writer, collectorEntity, astImport)

EmitImport(collector, collectorEntity, astImport) ==
    /\ pc = "emit"
    /\ LET result == emitImport(stringWriter, collector, collectorEntity, astImport)
       IN  /\ stringWriter' = result.stringWriter
           /\ lastCall' = [ op |-> "emitImport", before |-> stringWriter,
                            collector |-> collector, collectorEntity |-> collectorEntity,
                            astImport |-> astImport, threw |-> result.threw,
                            error |-> IF result.threw THEN result.error ELSE "" ]
    /\ pc' = "emitted"
    /\ UNCHANGED << collectorVars, builderVars, configVars >>

\* the export names handed to emitNamedExport
EmittedExportNames == { "x", "N", InternalSymbolNameDefault }

\* collector.starExportedExternalModulePaths
StarExportedExternalModulePaths == { << >>, << "m" >>, << "m", "n" >> }

\* emitNamedExport, lines 153-165: the writer after the call
emitNamedExport(writer, exportName, collectorEntity) ==
    IF exportName = InternalSymbolNameDefault
    THEN writeLine(writer, "export default " \o collectorEntity.nameForEmit \o ";")
    ELSE IF collectorEntity.nameForEmit # exportName
    THEN writeLine(writer, "export { " \o collectorEntity.nameForEmit \o " as "
                           \o exportName \o " }")
    ELSE writeLine(writer, "export { " \o exportName \o " }")

\* lines 170-172: one line for each star-exported module path, in order
RECURSIVE writeStarExports(_, _)
writeStarExports(writer, modulePaths) ==
    IF modulePaths = << >>
    THEN writer
    ELSE writeStarExports(writeLine(writer, "export * from \"" \o Head(modulePaths) \o "\";"),
                          Tail(modulePaths))

\* emitStarExports, lines 167-174: the writer after the call
emitStarExports(writer, modulePaths) ==
    IF Len(modulePaths) > 0
    THEN writeStarExports(writeLine(writer, ""), modulePaths)
    ELSE writer

\* DtsEmitHelpers.emitNamedExport(stringWriter, exportName, collectorEntity)
EmitNamedExport(exportName, collectorEntity) ==
    /\ pc = "emit"
    /\ stringWriter' = emitNamedExport(stringWriter, exportName, collectorEntity)
    /\ lastCall' = [ op |-> "emitNamedExport", before |-> stringWriter,
                     exportName |-> exportName, collectorEntity |-> collectorEntity,
                     threw |-> FALSE, error |-> "" ]
    /\ pc' = "emitted"
    /\ UNCHANGED << collectorVars, builderVars, configVars >>

\* DtsEmitHelpers.emitStarExports(stringWriter, collector)
EmitStarExports(modulePaths) ==
    /\ pc = "emit"
    /\ stringWriter' = emitStarExports(stringWriter, modulePaths)
    /\ lastCall' = [ op |-> "emitStarExports", before |-> stringWriter,
                     starExportedExternalModulePaths |-> modulePaths,
                     threw |-> FALSE, error |-> "" ]
    /\ pc' = "emitted"
    /\ UNCHANGED << collectorVars, builderVars, configVars >>

InitEmit ==
    /\ program = Undefined
    /\ pendingExports = << >>
    /\ entities = << >>
    /\ ce = << >>
    /\ pc = "emit"
    /\ releaseTimming = None
    /\ rootExportTrimmings = { }
    /\ alreadySeenAstEntities = { }
    /\ referencedAstEntities = << >>
    /\ referencedCollectorEntities = << >>
    /\ seedIndex = 0
    /\ stack = << >>
    /\ expandCount = [ e \in AstEntities |-> 0 ]
    /\ declLog = { }
    /\ lastRead = NoRead
    /\ callCount = 0
    /\ registered = << >>
    /\ astObjects = << >>
    /\ stringWriter \in WrittenBefore
    /\ lastCall = NoCall
    /\ ConfigurationIdle
    /\ BuilderIdle

NextEmit ==
    \/ \E collector \in EmitCollectors, collectorEntity \in [ nameForEmit : EmittedNames ],
          astImport \in EmittedAstImports :
           EmitImport(collector, collectorEntity, astImport)
    \/ \E exportName \in EmittedExportNames, collectorEntity \in [ nameForEmit : EmittedNames ] :
           EmitNamedExport(exportName, collectorEntity)
    \/ \E modulePaths \in StarExportedExternalModulePaths : EmitStarExports(modulePaths)

SpecEmit == InitEmit /\ [][NextEmit]_vars

\* the text the last call added to the writer
WrittenByCall == SubSeq(stringWriter, Len(lastCall.before) + 1, Len(stringWriter))

\* C21: for an import whose exportPath has more than one segment, emitImport fails
\* exactly when the base import is not resolved or has no CollectorEntity; a failing
\* call (an unknown importKind included) leaves the writer as it was; a successful one
\* adds the one line "import <name> = <base name>.<rest of the path>;".
C21_EmitSubPathImport ==
    lastCall.op = "emitImport" =>
        /\ Len(lastCall.astImport.exportPath) > 1 =>
              /\ lastCall.threw <=>
                    ( \/ ~Has(lastCall.collector, "referencedAstImport")
                      \/ ~Has(lastCall.collector, "referencedCollectorEntity") )
              /\ ~lastCall.threw =>
                    WrittenByCall =
                        "import " \o lastCall.collectorEntity.nameForEmit \o " = "
                        \o lastCall.collector.referencedCollectorEntity.nameForEmit \o "."
                        \o Join(Tail(lastCall.astImport.exportPath), ".") \o ";\n"
        /\ ( /\ Len(lastCall.astImport.exportPath) <= 1
             /\ lastCall.astImport.importKind \notin AstImportKinds ) => lastCall.threw
        /\ lastCall.threw => stringWriter = lastCall.before

\* a call for the path x.y below a base import that has no CollectorEntity failed and
\* left the text of the writer alone
C21_Witness ==
    /\ lastCall.op = "emitImport"
    /\ lastCall.astImport.exportPath = << "x", "y" >>
    /\ Has(lastCall.collector, "referencedAstImport")
    /\ ~Has(lastCall.collector, "referencedCollectorEntity")
    /\ lastCall.threw
    /\ lastCall.before = "// rollup\n" /\ stringWriter = "// rollup\n"

\* whether the text starts with the prefix
StartsWith(text, prefix) ==
    Len(text) >= Len(prefix) /\ SubSeq(text, 1, Len(prefix)) = prefix

\* whether the text holds the part somewhere
Includes(text, part) ==
    \E i \in 1..(Len(text) - Len(part) + 1) : SubSeq(text, i, i + Len(part) - 1) = part

\* the statement of an import kind, without the import keyword: name is the name the
\* statement binds, exportName the name the module exports
StatementOfKind(importKind, name, exportName, modulePath) ==
    CASE importKind = DefaultImport ->
           ( IF name = exportName THEN name ELSE "{ default as " \o name \o " }" )
           \o " from '" \o modulePath \o "';\n"
      [] importKind = NamedImport ->
           ( IF name = exportName THEN "{ " \o name \o " }"
             ELSE "{ " \o exportName \o " as " \o name \o " }" )
           \o " from '" \o modulePath \o "';\n"
      [] importKind = StarImport -> "* as " \o name \o " from '" \o modulePath \o "';\n"
      [] importKind = EqualsImport -> name \o " = require('" \o modulePath \o "');\n"

\* C22: for an import with a one-segment exportPath, emitImport writes the statement
\* of the import kind from modulePath and nameForEmit, in the renaming form exactly
\* when nameForEmit differs from exportName, and starting with "import type" exactly
\* when isTypeOnlyEverywhere is true.
C22_EmitImportOfKind ==
    ( /\ lastCall.op = "emitImport"
      /\ Len(lastCall.astImport.exportPath) = 1
      /\ lastCall.astImport.importKind \in AstImportKinds ) =>
        LET astImport == lastCall.astImport
            name == lastCall.collectorEntity.nameForEmit
        IN  /\ ~lastCall.threw
            /\ WrittenByCall =
                  ( IF astImport.isTypeOnlyEverywhere THEN "import type " ELSE "import " )
                  \o StatementOfKind(astImport.importKind, name, astImport.exportName,
                                     astImport.modulePath)
            /\ StartsWith(WrittenByCall, "import type ") <=> astImport.isTypeOnlyEverywhere
            /\ astImport.importKind \in { DefaultImport, NamedImport } =>
                  ( Includes(WrittenByCall, " as " \o name \o " }")
                        <=> name # astImport.exportName )

\* a type-only named import of x emitted under the name N
C22_Witness ==
    /\ lastCall.op = "emitImport"
    /\ lastCall.astImport.exportPath = << "x" >>
    /\ lastCall.astImport.importKind = NamedImport
    /\ lastCall.astImport.isTypeOnlyEverywhere
    /\ lastCall.before = "// rollup\n"
    /\ stringWriter = "// rollup\nimport type { x as N } from 'm';\n"

(***************************************************************************)
(* ConfigurationFile (ae7-framwork-design-memo.md, lines 271-640): loading *)
(* configuration files with "extends" through the shared promise cache,    *)
(* and merging one property of a file with the value of its parent.        *)
(***************************************************************************)
MaxLoads == 2

Loads == 1..MaxLoads

ConfigurationFilePaths == { "A", "B" }

\* the values of the property: absent, false, a string, an array
AbsentValue == [ kind |-> "undefined", items |-> << >> ]

PropertyValueKinds == { "undefined", "false", "string", "array" }

\* the value of a kind as the file of a path holds it
ValueInFile(kind, path) ==
    [ kind |-> kind, items |-> IF kind \in { "string", "array" } THEN << path >> ELSE << >> ]

\* the files on disk: each extends the other file or nothing
FileSystems ==
    { [ path \in ConfigurationFilePaths |->
          [ extends |-> e[path], property |-> ValueInFile(k[path], path) ] ] :
        e \in { x \in [ ConfigurationFilePaths -> ConfigurationFilePaths \cup { Undefined } ] :
                  \A path \in ConfigurationFilePaths : x[path] # path },
        k \in [ ConfigurationFilePaths -> PropertyValueKinds ] }

\* options.propertyInheritance of the property: not declared, or an inheritance type
\* with or without an inheritanceFunction ("merge" is no InheritanceType)
PropertyInheritances ==
    { [ inheritanceType |-> Undefined, inheritanceFunction |-> FALSE ],
      [ inheritanceType |-> "replace", inheritanceFunction |-> FALSE ],
      [ inheritanceType |-> "append", inheritanceFunction |-> FALSE ],
      [ inheritanceType |-> "custom", inheritanceFunction |-> TRUE ],
      [ inheritanceType |-> "custom", inheritanceFunction |-> FALSE ],
      [ inheritanceType |-> "merge", inheritanceFunction |-> FALSE ] }

Truthy(value) == value.kind \in { "string", "array" }

IsArray(value) == value.kind = "array"

\* the inheritanceFunction the caller supplies: the parent's items before the file's
inheritanceFunction(currentObject, parentObject) ==
    [ kind |-> "array", items |-> parentObject.items \o currentObject.items ]

\* the switch on the inheritance type, lines 537-617
mergeByInheritanceType(propertyValue, parentPropertyValue) ==
    LET inheritanceType ==
            IF propertyInheritanceTypes.inheritanceType # Undefined
            THEN propertyInheritanceTypes.inheritanceType
            ELSE IF IsArray(propertyValue) /\ IsArray(parentPropertyValue)
                 THEN "append" ELSE "replace"
    IN  CASE inheritanceType = "replace" ->
               [ threw |-> FALSE, error |-> "",
                 value |-> IF propertyValue # AbsentValue
                           THEN propertyValue ELSE parentPropertyValue ]
          [] inheritanceType = "append" ->
               IF propertyValue # AbsentValue /\ parentPropertyValue = AbsentValue
               THEN [ threw |-> FALSE, error |-> "", value |-> propertyValue ]
               ELSE IF propertyValue = AbsentValue /\ parentPropertyValue # AbsentValue
               THEN [ threw |-> FALSE, error |-> "", value |-> parentPropertyValue ]
               ELSE IF ~IsArray(propertyValue) \/ ~IsArray(parentPropertyValue)
               THEN [ threw |-> TRUE, error |-> "Property is not an array",
                      value |-> AbsentValue ]
               ELSE [ threw |-> FALSE, error |-> "",
                      value |-> [ kind |-> "array",
                                  items |-> parentPropertyValue.items
                                            \o propertyValue.items ] ]
          [] inheritanceType = "custom" ->
               IF ~propertyInheritanceTypes.inheritanceFunction
               THEN [ threw |-> TRUE, error |-> "an inheritanceFunction must be provided",
                      value |-> AbsentValue ]
               ELSE [ threw |-> FALSE, error |-> "",
                      value |-> inheritanceFunction(propertyValue, parentPropertyValue) ]
          [] OTHER ->
               [ threw |-> TRUE, error |-> "Unknown inheritance type", value |-> AbsentValue ]

\* lines 526-623, for one property that the file or its parent holds: the new value, or
\* the error thrown
mergeProperty(propertyValue, parentPropertyValue) ==
    IF Truthy(propertyValue) /\ ~Truthy(parentPropertyValue)
    THEN [ threw |-> FALSE, error |-> "", value |-> propertyValue ]
    ELSE IF Truthy(parentPropertyValue) /\ ~Truthy(propertyValue)
    THEN [ threw |-> FALSE, error |-> "", value |-> parentPropertyValue ]
    ELSE mergeByInheritanceType(propertyValue, parentPropertyValue)

\* lines 514-631: the result of a file and its parent's result; the loop runs for the
\* property when one of the two holds it
mergeConfiguration(configurationJson, parentConfiguration) ==
    IF configurationJson.property = AbsentValue /\ parentConfiguration = AbsentValue
    THEN [ threw |-> FALSE, error |-> "", value |-> AbsentValue ]
    ELSE mergeProperty(configurationJson.property, parentConfiguration)

\* a promise of the cache: the call of _loadConfigurationFileInnerAsync that made it
\* reads its file, awaits the promise of its parent, or has settled
NoPromise ==
    [ state |-> "none", visitedBy |-> 0, parent |-> Undefined, value |-> AbsentValue,
      error |-> "" ]

\* a call of loadConfigurationFileForProjectAsync, with its visitedConfigurationFilePaths
NoLoad ==
    [ state |-> "idle", path |-> Undefined, visited |-> { }, value |-> AbsentValue,
      error |-> "" ]

Settled(promise) == promise.state \in { "fulfilled", "rejected" }

LoopError == "A loop has been detected in the \"extends\" properties"

\* _loadConfigurationFileInnerWithCacheAsync up to its await, lines 374-407: the cache,
\* whether the loop error is thrown, and the visited set afterwards
loadConfigurationFileInnerWithCache(cache, visited, path, load) ==
    [ cache |-> IF cache[path].state = "none"
                THEN [ cache EXCEPT ![path] = [ NoPromise EXCEPT !.state = "reading",
                                                                  !.visitedBy = load ] ]
                ELSE cache,
      threw |-> path \in visited,
      visited |-> IF path \in visited THEN visited ELSE visited \cup { path } ]

\* loadConfigurationFileForProjectAsync, lines 303-315, up to the await of line 407
LoadConfigurationFileForProject(load, path) ==
    /\ pc = "config"
    /\ loads[load].state = "idle"
    /\ \A earlier \in 1..(load - 1) : loads[earlier].state # "idle"
    /\ LET call == loadConfigurationFileInnerWithCache(configPromiseCache, { }, path, load)
       IN  /\ configPromiseCache' = call.cache
           /\ loads' = [ loads EXCEPT ![load] =
                           [ NoLoad EXCEPT !.state = "awaiting", !.path = path,
                                           !.visited = call.visited ] ]
    /\ UNCHANGED << collectorVars, builderVars, pc, stringWriter, lastCall, fileSystem,
                    propertyInheritanceTypes >>

\* _loadConfigurationFileInnerAsync after the file is read, lines 472-512: without
\* "extends" the result is computed; with it the parent is looked up in the cache with
\* the visited set of the load that made this call
ReadFileDone(path) ==
    /\ pc = "config"
    /\ configPromiseCache[path].state = "reading"
    /\ LET configurationJson == fileSystem[path]
           load == configPromiseCache[path].visitedBy
       IN  IF configurationJson.extends = Undefined
           THEN LET result == mergeConfiguration(configurationJson, AbsentValue)
                IN  /\ configPromiseCache' =
                          [ configPromiseCache EXCEPT ![path] =
                              [ @ EXCEPT !.state = IF result.threw THEN "rejected"
                                                   ELSE "fulfilled",
                                         !.value = result.value,
                                         !.error = result.error ] ]
                    /\ UNCHANGED loads
           ELSE LET call == loadConfigurationFileInnerWithCache(
                                configPromiseCache, loads[load].visited,
                                configurationJson.extends, load)
                IN  /\ configPromiseCache' =
                          [ call.cache EXCEPT ![path] =
                              IF call.threw
                              THEN [ @ EXCEPT !.state = "rejected", !.error = LoopError ]
                              ELSE [ @ EXCEPT !.state = "awaiting",
                                              !.parent = configurationJson.extends ] ]
                    /\ loads' = [ loads EXCEPT ![load].visited = call.visited ]
    /\ UNCHANGED << collectorVars, builderVars, pc, stringWriter, lastCall, fileSystem,
                    propertyInheritanceTypes >>

\* _loadConfigurationFileInnerAsync resumed by the promise of its parent, lines 496-631
ParentSettled(path) ==
    /\ pc = "config"
    /\ configPromiseCache[path].state = "awaiting"
    /\ Settled(configPromiseCache[configPromiseCache[path].parent])
    /\ LET parentPromise == configPromiseCache[configPromiseCache[path].parent]
           result == mergeConfiguration(fileSystem[path], parentPromise.value)
       IN  configPromiseCache' =
               [ configPromiseCache EXCEPT ![path] =
                   IF parentPromise.state = "rejected"
                   THEN [ @ EXCEPT !.state = "rejected", !.error = parentPromise.error ]
                   ELSE [ @ EXCEPT !.state = IF result.threw THEN "rejected" ELSE "fulfilled",
                                   !.value = result.value,
                                   !.error = result.error ] ]
    /\ UNCHANGED << collectorVars, builderVars, pc, stringWriter, lastCall, fileSystem,
                    propertyInheritanceTypes, loads >>

\* loadConfigurationFileForProjectAsync resumed by the promise it awaits
LoadSettled(load) ==
    /\ pc = "config"
    /\ loads[load].state = "awaiting"
    /\ Settled(configPromiseCache[loads[load].path])
    /\ LET promise == configPromiseCache[loads[load].path]
       IN  loads' = [ loads EXCEPT ![load] =
                        [ @ EXCEPT !.state = promise.state, !.value = promise.value,
                                   !.error = promise.error ] ]
    /\ UNCHANGED << collectorVars, builderVars, pc, stringWriter, lastCall, fileSystem,
                    propertyInheritanceTypes, configPromiseCache >>

InitConfig ==
    /\ program = Undefined
    /\ pendingExports = << >>
    /\ entities = << >>
    /\ ce = << >>
    /\ pc = "config"
    /\ releaseTimming = None
    /\ rootExportTrimmings = { }
    /\ alreadySeenAstEntities = { }
    /\ referencedAstEntities = << >>
    /\ referencedCollectorEntities = << >>
    /\ seedIndex = 0
    /\ stack = << >>
    /\ expandCount = [ e \in AstEntities |-> 0 ]
    /\ declLog = { }
    /\ lastRead = NoRead
    /\ callCount = 0
    /\ registered = << >>
    /\ astObjects = << >>
    /\ stringWriter = ""
    /\ lastCall = NoCall
    /\ fileSystem \in FileSystems
    /\ propertyInheritanceTypes \in PropertyInheritances
    /\ configPromiseCache = [ path \in ConfigurationFilePaths |-> NoPromise ]
    /\ loads = [ load \in Loads |-> NoLoad ]
    /\ BuilderIdle

ConfigStep ==
    \/ \E path \in ConfigurationFilePaths : ReadFileDone(path)
    \/ \E path \in ConfigurationFilePaths : ParentSettled(path)
    \/ \E load \in Loads : LoadSettled(load)

NextConfig ==
    \/ \E load \in Loads, path \in ConfigurationFilePaths :
          LoadConfigurationFileForProject(load, path)
    \/ ConfigStep

SpecConfig == InitConfig /\ [][NextConfig]_vars

\* the event loop runs every continuation that is ready
SpecConfigFair == SpecConfig /\ WF_vars(ConfigStep)

\* whether the file of the path holds the property
HoldsProperty(path) == fileSystem[path].property # AbsentValue

\* whether the file, its parent, or both hold the property
ContainsProperty(path) ==
    \/ HoldsProperty(path)
    \/ fileSystem[path].extends # Undefined /\ HoldsProperty(fileSystem[path].extends)

\* C23: when the property is declared with the inheritance type custom and no
\* inheritanceFunction, or with an unknown inheritance type, a load of a file that
\* contains the property (in the file, in its parent, or in both) fails with an error
\* and yields no merged result.
C23_MissingInheritanceFunctionIsFatal ==
    \A load \in Loads :
        ( /\ Settled(loads[load])
          /\ \/ /\ propertyInheritanceTypes.inheritanceType = "custom"
                /\ ~propertyInheritanceTypes.inheritanceFunction
             \/ propertyInheritanceTypes.inheritanceType = "merge"
          /\ ContainsProperty(loads[load].path) )
        => loads[load].state = "rejected" /\ loads[load].value = AbsentValue

\* whether the extends chain of the path comes back to the path
OnLoop(path) ==
    \E other \in ConfigurationFilePaths :
        fileSystem[path].extends = other /\ fileSystem[other].extends = path

\* C24: a load of a file whose extends chain is a loop always ends with the loop
\* error and never waits forever, also when several loads that share the promise
\* cache run at the same time and start from different files of the loop.
C24_LoopAlwaysDetected ==
    \A load \in Loads :
        [] ( ( loads[load].state = "awaiting" /\ OnLoop(loads[load].path) )
             => <> ( loads[load].state = "rejected" /\ loads[load].error = LoopError ) )

(***************************************************************************)
(* GitPolicy.check (rush-lib/src/logic/GitPolicy.ts, lines 42-109)         *)
(***************************************************************************)
MaxPatterns == 2

\* rushConfiguration.gitAllowedEmailRegExps entries
AllowedEmailPatterns == { ".*@example\\.com", "bob@.*", ".*@other\\.org" }

GitAllowedEmailRegExps == SeqsOver(AllowedEmailPatterns, MaxPatterns)

\* the userEmail argument; Undefined when it is omitted
UserEmails == { Undefined, "", "bob@example.com", "BOB@Example.COM", "bob @example.com",
                "eve@other.org", "eve@other.org.uk" }

\* what `git config user.email` does: it fails, or prints the configured address
GitConfigOutcomes ==
    { [ threw |-> TRUE, stdout |-> "" ] }
    \cup [ threw : { FALSE }, stdout : { "", " bob@example.com\n", "mallory@evil.io\n" } ]

\* what `git config user.name` does: it fails, or prints the configured name
GitUserNameOutcomes ==
    { [ threw |-> TRUE, stdout |-> "" ] }
    \cup [ threw : { FALSE }, stdout : { "", "Bob\n" } ]

IsWhitespace(char) == char \in { " ", "\t", "\n", "\r" }

\* String.prototype.trim
RECURSIVE trim(_)
trim(text) ==
    IF text = "" THEN ""
    ELSE IF IsWhitespace(SubSeq(text, 1, 1)) THEN trim(SubSeq(text, 2, Len(text)))
    ELSE IF IsWhitespace(SubSeq(text, Len(text), Len(text)))
         THEN trim(SubSeq(text, 1, Len(text) - 1))
    ELSE text

\* the letters of the addresses and patterns, in upper and in lower case
UpperCase == "ABCDEFGHIJKLMNOPQRSTUVWXYZ"

LowerCase == "abcdefghijklmnopqrstuvwxyz"

\* one character without its case, as the flag 'i' compares it
IgnoreCase(char) ==
    IF \E i \in 1..Len(UpperCase) : SubSeq(UpperCase, i, i) = char
    THEN LET i == CHOOSE k \in 1..Len(UpperCase) : SubSeq(UpperCase, k, k) = char
         IN  SubSeq(LowerCase, i, i)
    ELSE char

\* whether the whole text matches the pattern, ignoring case: new RegExp('^' + pattern
\* + '$', 'i') for patterns made of characters, "\\" escapes, "." and ".*"
RECURSIVE RegExpMatches(_, _)
RegExpMatches(pattern, text) ==
    IF pattern = "" THEN text = ""
    ELSE IF Len(pattern) >= 2 /\ SubSeq(pattern, 1, 2) = ".*"
    THEN \E skipped \in 0..Len(text) :
            RegExpMatches(SubSeq(pattern, 3, Len(pattern)),
                          SubSeq(text, skipped + 1, Len(text)))
    ELSE IF Len(pattern) >= 2 /\ SubSeq(pattern, 1, 1) = "\\"
    THEN /\ text # ""
         /\ SubSeq(text, 1, 1) = SubSeq(pattern, 2, 2)
         /\ RegExpMatches(SubSeq(pattern, 3, Len(pattern)), SubSeq(text, 2, Len(text)))
    ELSE /\ text # ""
         /\ \/ SubSeq(pattern, 1, 1) = "."
            \/ IgnoreCase(SubSeq(text, 1, 1)) = IgnoreCase(SubSeq(pattern, 1, 1))
         /\ RegExpMatches(SubSeq(pattern, 2, Len(pattern)), SubSeq(text, 2, Len(text)))

\* userEmail.match(/^\S+$/g)
MatchesNoWhitespace(text) ==
    text # "" /\ \A i \in 1..Len(text) : ~IsWhitespace(SubSeq(text, i, i))

\* the console.log call of lines 27-31 and 100-105: the sample git commands
GitConfigSample == "    git config --local user.name"

\* the console.log call of lines 33 and 107
Aborting == "Aborting"

\* GitPolicy.getUserEmail, lines 12-40: the trimmed output, or undefined after a failure,
\* and the console.log calls made
getUserEmail(git) ==
    IF git.threw
    THEN [ value |-> Undefined,
           console |-> << "Error: Unable to determine your Git configuration",
                          GitConfigSample, Aborting >> ]
    ELSE [ value |-> trim(git.stdout), console |-> << >> ]

\* lines 70-80: the address, with the user's name when `git config user.name` gives one
fancyEmail(userEmail, gitUserName) ==
    IF ~gitUserName.threw /\ ~Falsy(trim(gitUserName.stdout))
    THEN trim(gitUserName.stdout) \o " <" \o userEmail \o ">"
    ELSE userEmail

\* the loop of lines 59-66: whether it returns false, at the first pattern that the
\* address does not match
RECURSIVE LoopReturnsFalse(_, _)
LoopReturnsFalse(patterns, userEmail) ==
    IF patterns = << >> THEN FALSE
    ELSE IF ~RegExpMatches(Head(patterns), userEmail) THEN TRUE
    ELSE LoopReturnsFalse(Tail(patterns), userEmail)

\* GitPolicy.check, lines 42-109: the value returned and the console.log calls made
check(gitAllowedEmailRegExps, userEmailArgument, git, gitUserName) ==
    IF Len(gitAllowedEmailRegExps) = 0
    THEN [ returned |-> TRUE, console |-> << >>, userEmail |-> userEmailArgument ]
    ELSE LET asked == Falsy(userEmailArgument)
             userEmail == IF asked THEN getUserEmail(git).value ELSE userEmailArgument
             checking == << "Checking Git policy for this repository." >>
                         \o IF asked THEN getUserEmail(git).console ELSE << >>
         IN  IF Falsy(userEmail) \/ ~MatchesNoWhitespace(userEmail)
             THEN [ returned |-> FALSE,
                    console |-> checking \o << "The gitPolicy check failed" >>,
                    userEmail |-> userEmail ]
             ELSE IF LoopReturnsFalse(gitAllowedEmailRegExps, userEmail)
             THEN [ returned |-> FALSE, console |-> checking, userEmail |-> userEmail ]
             ELSE [ returned |-> FALSE,
                    console |-> checking
                                \o << "Hey there!" >>
                                \o [ i \in 1..Len(gitAllowedEmailRegExps) |->
                                       "    " \o gitAllowedEmailRegExps[i] ]
                                \o << "...but yours is configured like this: "
                                          \o fancyEmail(userEmail, gitUserName),
                                      GitConfigSample, Aborting >>,
                    userEmail |-> userEmail ]

Check(gitAllowedEmailRegExps, userEmailArgument, git, gitUserName) ==
    /\ pc = "git"
    /\ LET result == check(gitAllowedEmailRegExps, userEmailArgument, git, gitUserName)
       IN  lastCall' = [ op |-> "check", gitAllowedEmailRegExps |-> gitAllowedEmailRegExps,
                         userEmailArgument |-> userEmailArgument, git |-> git,
                         gitUserName |-> gitUserName,
                         userEmail |-> result.userEmail, returned |-> result.returned,
                         console |-> result.console ]
    /\ pc' = "checked"
    /\ UNCHANGED << collectorVars, builderVars, stringWriter, configVars >>

InitGit ==
    /\ program = Undefined
    /\ pendingExports = << >>
    /\ entities = << >>
    /\ ce = << >>
    /\ pc = "git"
    /\ releaseTimming = None
    /\ rootExportTrimmings = { }
    /\ alreadySeenAstEntities = { }
    /\ referencedAstEntities = << >>
    /\ referencedCollectorEntities = << >>
    /\ seedIndex = 0
    /\ stack = << >>
    /\ expandCount = [ e \in AstEntities |-> 0 ]
    /\ declLog = { }
    /\ lastRead = NoRead
    /\ callCount = 0
    /\ registered = << >>
    /\ astObjects = << >>
    /\ ToolsIdle

NextGit ==
    \E gitAllowedEmailRegExps \in GitAllowedEmailRegExps, userEmailArgument \in UserEmails,
       git \in GitConfigOutcomes, gitUserName \in GitUserNameOutcomes :
        Check(gitAllowedEmailRegExps, userEmailArgument, git, gitUserName)

SpecGit == InitGit /\ [][NextGit]_vars

\* whether the address matches one of the patterns, whole and without regard to case
MatchesSomePattern(patterns, userEmail) ==
    \E i \in 1..Len(patterns) : RegExpMatches(patterns[i], userEmail)

\* whether the console shows each of the patterns
ShowsPatterns(console, patterns) ==
    \A i \in 1..Len(patterns) : \E j \in 1..Len(console) : console[j] = "    " \o patterns[i]

\* C25: check returns true when no pattern is configured; otherwise it returns true
\* exactly when the user's e-mail is not empty, has no whitespace and matches at least
\* one allowed pattern as a whole, ignoring case; when the e-mail matches none of the
\* patterns it prints the expected patterns and returns false.
C25_CheckAcceptsAllowedEmail ==
    lastCall.op = "check" =>
        LET patterns == lastCall.gitAllowedEmailRegExps
            userEmail == lastCall.userEmail
            wellFormed == userEmail # Undefined /\ MatchesNoWhitespace(userEmail)
        IN  /\ patterns = << >> => lastCall.returned
            /\ patterns # << >> =>
                  ( lastCall.returned <=>
                        ( wellFormed /\ MatchesSomePattern(patterns, userEmail) ) )
            /\ ( patterns # << >> /\ wellFormed /\ ~MatchesSomePattern(patterns, userEmail) )
                  => ( ~lastCall.returned /\ ShowsPatterns(lastCall.console, patterns) )

(***************************************************************************)
(* TypeScriptBuilder (unnamed/part_003): _validateTsconfig (733-798),      *)
(* _addModuleKindToEmit (800-823) and _emit (625-731).                     *)
(***************************************************************************)
MaxAdditionalModuleKinds == 2

MaxEmits == 2

\* this._configuration.buildFolder and this._configuration.buildCacheFolder
BuildFolder == "/proj"

BuildCacheFolder == "/proj/.heft/build-cache"

\* output folders, written relative to the build folder or as absolute paths
OutFolderPaths == { "lib", "lib-esm", "/proj/lib", "/proj/lib-esm" }

\* tsconfig.options: module and outDir, each present or not
Tsconfigs ==
    [ module : { Undefined, "CommonJS", "ESNext" }, outDir : { Undefined, "lib", "/proj/lib" } ]

\* this._configuration.additionalModuleKindsToEmit
AdditionalModuleKindsToEmit ==
    SeqsOver([ moduleKind : { "commonjs", "ESNext", "amd" }, outFolderPath : OutFolderPaths ],
             MaxAdditionalModuleKinds)

\* String.prototype.toLowerCase
RECURSIVE toLowerCase(_)
toLowerCase(text) ==
    IF text = "" THEN ""
    ELSE IgnoreCase(SubSeq(text, 1, 1)) \o toLowerCase(SubSeq(text, 2, Len(text)))

\* _parseModuleKind, lines 1090-1113 (the kinds used here)
parseModuleKind(moduleKindName) ==
    CASE toLowerCase(moduleKindName) = "commonjs" -> "CommonJS"
      [] toLowerCase(moduleKindName) = "amd" -> "AMD"
      [] toLowerCase(moduleKindName) = "esnext" -> "ESNext"
      [] OTHER -> Undefined

\* path.isAbsolute, path.relative and path.resolve of the posix paths used here
isAbsolute(path) == StartsWith(path, "/")

relative(from, to) ==
    IF StartsWith(to, from \o "/") THEN SubSeq(to, Len(from) + 2, Len(to)) ELSE to

resolve(from, to) == IF isAbsolute(to) THEN to ELSE from \o "/" \o to

\* _addModuleKindToEmit, lines 800-823: the entry pushed and the folder name returned
addModuleKindToEmit(moduleKind, outFolderPath, isPrimary) ==
    LET outFolderName == IF isAbsolute(outFolderPath)
                         THEN relative(BuildFolder, outFolderPath)
                         ELSE outFolderPath
    IN  [ entry |-> [ outFolderPath |-> IF isAbsolute(outFolderPath) THEN outFolderPath
                                        ELSE resolve(BuildFolder, outFolderPath),
                      moduleKind |-> moduleKind,
                      cacheOutFolderPath |-> resolve(BuildCacheFolder, outFolderName),
                      isPrimary |-> isPrimary ],
          outFolderName |-> outFolderName ]

\* the loop of lines 763-796 from one entry on: the list at the end, or the error
RECURSIVE addAdditionalModuleKinds(_, _, _, _, _, _)
addAdditionalModuleKinds(additional, tsconfig, tsconfigOutFolderName, specifiedKinds, specifiedOutDirs, list) ==
    IF additional = << >>
    THEN [ threw |-> FALSE, error |-> "", moduleKindsToEmit |-> list ]
    ELSE LET additionalModuleKindToEmit == Head(additional)
             moduleKind == parseModuleKind(additionalModuleKindToEmit.moduleKind)
             added == addModuleKindToEmit(moduleKind,
                                          additionalModuleKindToEmit.outFolderPath, FALSE)
         IN  IF moduleKind = Undefined
             THEN [ threw |-> TRUE, error |-> "is not a valid module kind name",
                    moduleKindsToEmit |-> list ]
             ELSE IF tsconfig.module = moduleKind
             THEN [ threw |-> TRUE, error |-> "Module kind is already specified in the tsconfig",
                    moduleKindsToEmit |-> list ]
             ELSE IF tsconfigOutFolderName = additionalModuleKindToEmit.outFolderPath
             THEN [ threw |-> TRUE, error |-> "Output folder is already specified in the tsconfig",
                    moduleKindsToEmit |-> list ]
             ELSE IF moduleKind \in specifiedKinds
             THEN [ threw |-> TRUE, error |-> "Module kind is specified in more than one entry",
                    moduleKindsToEmit |-> list ]
             ELSE IF additionalModuleKindToEmit.outFolderPath \in specifiedOutDirs
             THEN [ threw |-> TRUE, error |-> "Output folder is specified in more than one entry",
                    moduleKindsToEmit |-> list ]
             ELSE addAdditionalModuleKinds(Tail(additional), tsconfig, tsconfigOutFolderName,
                                           specifiedKinds \cup { moduleKind },
                                           specifiedOutDirs \cup { added.outFolderName },
                                           Append(list, added.entry))

\* _validateTsconfig, lines 733-798: the error thrown, if any, and _moduleKindsToEmit
\* afterwards (before is the list the builder held at the call)
validateTsconfig(before, tsconfig, additionalModuleKindsToEmit) ==
    IF (tsconfig.module # Undefined) # (tsconfig.outDir # Undefined)
    THEN [ threw |-> TRUE, error |-> "both must be provided", moduleKindsToEmit |-> before ]
    ELSE IF tsconfig.module = Undefined
    THEN [ threw |-> TRUE, error |-> "the module tsconfig compilerOption is not provided",
           moduleKindsToEmit |-> << >> ]
    ELSE LET primary == addModuleKindToEmit(tsconfig.module, tsconfig.outDir, TRUE)
         IN  addAdditionalModuleKinds(additionalModuleKindsToEmit, tsconfig,
                                      primary.outFolderName, { }, { }, << primary.entry >>)

ValidateTsconfig(tsconfig, additionalModuleKindsToEmit) ==
    /\ pc = "build"
    /\ LET result == validateTsconfig(moduleKindsToEmit, tsconfig, additionalModuleKindsToEmit)
       IN  /\ moduleKindsToEmit' = result.moduleKindsToEmit
           /\ lastCall' = [ op |-> "validateTsconfig", tsconfig |-> tsconfig,
                            additionalModuleKindsToEmit |-> additionalModuleKindsToEmit,
                            threw |-> result.threw, error |-> result.error ]
           /\ pc' = IF result.threw THEN "invalid" ELSE "validated"
    /\ UNCHANGED << collectorVars, stringWriter, configVars, emitFiles, lintVars >>

\* the primary entries of a list
PrimaryEntries(list) == { i \in 1..Len(list) : list[i].isPrimary }

\* _emit, lines 625-731: whether it throws, and what ts.emitFiles is bound to afterwards;
\* programEmitThrows tells whether tsProgram.emit (line 720) throws
emit(list, baseEmitFiles, programEmitThrows) ==
    IF Cardinality(PrimaryEntries(list)) > 1
    THEN [ threw |-> TRUE, error |-> "Multiple primary module emit kinds encountered.",
           emitFiles |-> baseEmitFiles ]
    ELSE IF programEmitThrows
    THEN [ threw |-> TRUE, error |-> "tsProgram.emit",
           emitFiles |-> Append(baseEmitFiles, "replacement") ]
    ELSE [ threw |-> FALSE, error |-> "", emitFiles |-> baseEmitFiles ]

Emit(programEmitThrows) ==
    /\ pc = "validated"
    /\ callCount < MaxEmits
    /\ LET result == emit(moduleKindsToEmit, emitFiles, programEmitThrows)
       IN  /\ emitFiles' = result.emitFiles
           /\ lastCall' = [ op |-> "emit", programEmitThrows |-> programEmitThrows,
                            before |-> emitFiles, threw |-> result.threw,
                            error |-> result.error ]
    /\ callCount' = callCount + 1
    /\ UNCHANGED << program, pendingExports, entities, ce, pc, passVars, lastRead, registered,
                    astObjects, stringWriter, configVars, moduleKindsToEmit, lintVars >>

InitBuild ==
    /\ program = Undefined
    /\ pendingExports = << >>
    /\ entities = << >>
    /\ ce = << >>
    /\ pc = "build"
    /\ releaseTimming = None
    /\ rootExportTrimmings = { }
    /\ alreadySeenAstEntities = { }
    /\ referencedAstEntities = << >>
    /\ referencedCollectorEntities = << >>
    /\ seedIndex = 0
    /\ stack = << >>
    /\ expandCount = [ e \in AstEntities |-> 0 ]
    /\ declLog = { }
    /\ lastRead = NoRead
    /\ callCount = 0
    /\ registered = << >>
    /\ astObjects = << >>
    /\ ToolsIdle

NextBuild ==
    \/ \E tsconfig \in Tsconfigs, additionalModuleKindsToEmit \in AdditionalModuleKindsToEmit :
          ValidateTsconfig(tsconfig, additionalModuleKindsToEmit)
    \/ \E programEmitThrows \in BOOLEAN : Emit(programEmitThrows)

SpecBuild == InitBuild /\ [][NextBuild]_vars

\* C26: after _validateTsconfig succeeds, _moduleKindsToEmit has exactly one primary
\* entry, of the tsconfig's module kind and outDir, and no two entries share a module
\* kind or an output folder; an additional entry that repeats the module kind or the
\* output folder of the tsconfig or of another entry is rejected, whether the folders
\* are written as absolute or as build-folder-relative paths.
C26_ModuleKindsToEmitDistinct ==
    ( pc = "validated" /\ lastCall.op = "validateTsconfig" ) =>
        /\ Cardinality(PrimaryEntries(moduleKindsToEmit)) = 1
        /\ \A i \in PrimaryEntries(moduleKindsToEmit) :
              /\ moduleKindsToEmit[i].moduleKind = lastCall.tsconfig.module
              /\ moduleKindsToEmit[i].outFolderPath =
                    resolve(BuildFolder, lastCall.tsconfig.outDir)
        /\ \A i, j \in 1..Len(moduleKindsToEmit) :
              i # j =>
                 /\ moduleKindsToEmit[i].moduleKind # moduleKindsToEmit[j].moduleKind
                 /\ moduleKindsToEmit[i].outFolderPath # moduleKindsToEmit[j].outFolderPath
        /\ Len(moduleKindsToEmit) = 1 + Len(lastCall.additionalModuleKindsToEmit)

\* C28: _emit replaces ts.emitFiles only while it runs: after every call, also one in
\* which tsProgram.emit throws, ts.emitFiles is the original function again, and a call
\* that fails with "Multiple primary module emit kinds encountered." never replaced it.
C28_EmitFilesRestored ==
    lastCall.op = "emit" =>
        /\ emitFiles = << >>
        /\ lastCall.error = "Multiple primary module emit kinds encountered."
              => emitFiles = lastCall.before

(***************************************************************************)
(* TypeScriptBuilder._runTslintAsync (unnamed/part_003, lines 965-1060):   *)
(* runs of TSLint over a program whose files and TSLint configuration      *)
(* change between the runs; the cache file is what the last run saved.     *)
(***************************************************************************)
MaxRuns == 2

\* tsProgram.getSourceFiles(), in order
ProgramSourceFiles == << "lib.d.ts", "a.ts", "b.ts", "gen.ts" >>

\* tsconfig.fileNames
TypeScriptFilenames == { "a.ts", "b.ts", "gen.ts" }

\* the files tslint.Configuration.isFileExcluded excludes
ExcludedFiles == { "gen.ts" }

FileVersions == { "v1", "v2" }

ConfigHashes == { "c1", "c2" }

\* the files that have lint failures, by version and configuration
LintFailureChoices ==
    SUBSET { << "a.ts", "v1", "c1" >>, << "a.ts", "v2", "c1" >>, << "a.ts", "v1", "c2" >>,
             << "b.ts", "v1", "c1" >> }

LinterVersion == "5.20.1"

NoCacheFile == [ exists |-> FALSE, cacheVersion |-> "", fileVersions |-> << >> ]

\* Map.prototype.get on the array of [key, value] pairs a Map is made from
RECURSIVE MapGet(_, _)
MapGet(pairs, key) ==
    IF pairs = << >> THEN Undefined
    ELSE IF \E i \in 1..Len(pairs) : pairs[i][1] = key
    THEN pairs[CHOOSE i \in 1..Len(pairs) :
                  pairs[i][1] = key /\ \A j \in (i + 1)..Len(pairs) : pairs[j][1] # key][2]
    ELSE Undefined

\* line 972
tslintConfigVersion(configHash) == LinterVersion \o "_" \o configHash

\* lines 985-987
cachedNoFailureFileVersions(tslintCacheData, configVersion) ==
    IF tslintCacheData.exists /\ tslintCacheData.cacheVersion = configVersion
    THEN tslintCacheData.fileVersions
    ELSE << >>

\* the loop of lines 1019-1048 from one source file on: the files linted, those with
\* failures, and newNoFailureFileVersions
RECURSIVE lintSourceFiles(_, _, _, _, _)
lintSourceFiles(files, tsProgram, cached, changedFiles, acc) ==
    IF files = << >> THEN acc
    ELSE LET filePath == Head(files)
             version == tsProgram.versions[filePath]
         IN  IF filePath \notin TypeScriptFilenames \/ filePath \in ExcludedFiles
             THEN lintSourceFiles(Tail(files), tsProgram, cached, changedFiles, acc)
             ELSE IF MapGet(cached, filePath) # version \/ filePath \in changedFiles
             THEN IF << filePath, version, tsProgram.configHash >> \notin tsProgram.failing
                  THEN lintSourceFiles(Tail(files), tsProgram, cached, changedFiles,
                           [ acc EXCEPT !.linted = @ \cup { filePath },
                                        !.newNoFailureFileVersions =
                                            Append(@, << filePath, version >>) ])
                  ELSE lintSourceFiles(Tail(files), tsProgram, cached, changedFiles,
                           [ acc EXCEPT !.linted = @ \cup { filePath },
                                        !.lintFailures = @ \cup { filePath } ])
             ELSE lintSourceFiles(Tail(files), tsProgram, cached, changedFiles,
                      [ acc EXCEPT !.newNoFailureFileVersions =
                                       Append(@, << filePath, version >>) ])

\* lines 985-1057, the part of _runTslintAsync between its two waits: the configuration
\* is loaded from disk (line 991, tsProgram.configHash), the files are linted or skipped
\* against the cache loaded, under the cacheVersion computed before the wait
runTslint(tsProgram, configVersion, tslintCacheData, changedFiles) ==
    LET result == lintSourceFiles(ProgramSourceFiles, tsProgram,
                                  cachedNoFailureFileVersions(tslintCacheData, configVersion),
                                  changedFiles,
                                  [ linted |-> { }, lintFailures |-> { },
                                    newNoFailureFileVersions |-> << >> ])
    IN  [ linted |-> result.linted, lintFailures |-> result.lintFailures,
          updatedTslintCacheData |->
              [ exists |-> TRUE, cacheVersion |-> configVersion,
                fileVersions |-> result.newNoFailureFileVersions ] ]

\* initialize(), lines 207-222: tslint.json is read into _rawProjectTslintFile
Initialize ==
    /\ pc = "lint"
    /\ tslintRun.stage = "idle"
    /\ rawProjectTslintFile' = sourceFiles.configHash
    /\ UNCHANGED << collectorVars, pc, stringWriter, lastCall, configVars, moduleKindsToEmit,
                    emitFiles, tslintCacheFile, sourceFiles, tslintRun >>

\* _runTslintAsync up to its first wait, lines 965-976: tsProgram and changedFiles are
\* those of the call (line 966), the versions of the program's source files are the ones
\* the files had when the caller made the program; the cacheVersion is computed from
\* _rawProjectTslintFile (_getConfigHash, line 1073) and the cache file is asked for
RunTslint(changedFiles) ==
    /\ pc = "lint"
    /\ callCount < MaxRuns
    /\ tslintRun.stage = "idle"
    /\ rawProjectTslintFile # Undefined
    /\ tslintRun' = [ stage |-> "loading", changedFiles |-> changedFiles,
                      versions |-> sourceFiles.versions,
                      tslintConfigVersion |-> tslintConfigVersion(rawProjectTslintFile) ]
    /\ UNCHANGED << collectorVars, pc, stringWriter, lastCall, configVars, moduleKindsToEmit,
                    emitFiles, tslintCacheFile, sourceFiles, rawProjectTslintFile >>

\* lines 976-1059: JsonFile.loadAsync is done; the source files of the program the call
\* was given are linted under the configuration now on disk, and the new cache is handed
\* to JsonFile.saveAsync
CacheLoaded ==
    /\ pc = "lint"
    /\ tslintRun.stage = "loading"
    /\ LET tsProgram == [ sourceFiles EXCEPT !.versions = tslintRun.versions ]
           result == runTslint(tsProgram, tslintRun.tslintConfigVersion, tslintCacheFile,
                               tslintRun.changedFiles)
       IN  tslintRun' = [ stage |-> "saving", changedFiles |-> tslintRun.changedFiles,
                          versions |-> tslintRun.versions,
                          tslintConfigVersion |-> tslintRun.tslintConfigVersion,
                          tsProgram |-> tsProgram, tslintCacheData |-> tslintCacheFile,
                          linted |-> result.linted, lintFailures |-> result.lintFailures,
                          updatedTslintCacheData |-> result.updatedTslintCacheData ]
    /\ UNCHANGED << collectorVars, pc, stringWriter, lastCall, configVars, moduleKindsToEmit,
                    emitFiles, tslintCacheFile, sourceFiles, rawProjectTslintFile >>

\* lines 1059-1061: JsonFile.saveAsync is done, the call returns the lint result
CacheSaved ==
    /\ pc = "lint"
    /\ tslintRun.stage = "saving"
    /\ tslintCacheFile' = tslintRun.updatedTslintCacheData
    /\ lastCall' = [ op |-> "runTslint", tsProgram |-> tslintRun.tsProgram,
                     tslintConfigVersion |-> tslintRun.tslintConfigVersion,
                     tslintCacheData |-> tslintRun.tslintCacheData,
                     changedFiles |-> tslintRun.changedFiles, linted |-> tslintRun.linted,
                     lintFailures |-> tslintRun.lintFailures ]
    /\ tslintRun' = NoRun
    /\ callCount' = callCount + 1
    /\ UNCHANGED << program, pendingExports, entities, ce, pc, passVars, lastRead, registered,
                    astObjects, stringWriter, configVars, moduleKindsToEmit, emitFiles,
                    sourceFiles, rawProjectTslintFile >>

\* a source file is edited on disk: it gets another version, which the programs made
\* from now on have
EditSourceFile(filePath) ==
    /\ pc = "lint"
    /\ callCount < MaxRuns
    /\ sourceFiles' = [ sourceFiles EXCEPT !.versions[filePath] =
                                               IF @ = "v1" THEN "v2" ELSE "v1" ]
    /\ UNCHANGED << collectorVars, pc, stringWriter, lastCall, configVars, moduleKindsToEmit,
                    emitFiles, tslintCacheFile, rawProjectTslintFile, tslintRun >>

\* tslint.json is edited: its hash changes
EditTslintConfig ==
    /\ pc = "lint"
    /\ callCount < MaxRuns
    /\ sourceFiles' = [ sourceFiles EXCEPT !.configHash = IF @ = "c1" THEN "c2" ELSE "c1" ]
    /\ UNCHANGED << collectorVars, pc, stringWriter, lastCall, configVars, moduleKindsToEmit,
                    emitFiles, tslintCacheFile, rawProjectTslintFile, tslintRun >>

InitLint ==
    /\ program = Undefined
    /\ pendingExports = << >>
    /\ entities = << >>
    /\ ce = << >>
    /\ pc = "lint"
    /\ releaseTimming = None
    /\ rootExportTrimmings = { }
    /\ alreadySeenAstEntities = { }
    /\ referencedAstEntities = << >>
    /\ referencedCollectorEntities = << >>
    /\ seedIndex = 0
    /\ stack = << >>
    /\ expandCount = [ e \in AstEntities |-> 0 ]
    /\ declLog = { }
    /\ lastRead = NoRead
    /\ callCount = 0
    /\ registered = << >>
    /\ astObjects = << >>
    /\ stringWriter = ""
    /\ lastCall = NoCall
    /\ ConfigurationIdle
    /\ moduleKindsToEmit = << >>
    /\ emitFiles = << >>
    /\ tslintCacheFile = NoCacheFile
    /\ sourceFiles \in [ versions : [ Range(ProgramSourceFiles) -> { "v1" } ],
                         configHash : { "c1" }, failing : LintFailureChoices ]
    /\ rawProjectTslintFile = Undefined
    /\ tslintRun = NoRun

NextLint ==
    \/ Initialize
    \/ \E changedFiles \in SUBSET { "a.ts", "b.ts" } : RunTslint(changedFiles)
    \/ CacheLoaded
    \/ CacheSaved
    \/ \E filePath \in { "a.ts", "b.ts" } : EditSourceFile(filePath)
    \/ EditTslintConfig

SpecLint == InitLint /\ [][NextLint]_vars

\* the files TSLint is asked about
InScopeFiles == TypeScriptFilenames \ ExcludedFiles

\* C27: a run skips a source file only if the loaded cache has the current
\* cacheVersion (the TSLint version and the hash of the configuration the run lints
\* with), records the file's current version, and the file is not in changedFiles; the
\* cache the run writes lists exactly the in-scope files that have no lint failure at
\* their current version, so a file with failures is never recorded.
C27_TslintCacheSound ==
    lastCall.op = "runTslint" =>
        LET run == lastCall.tsProgram
            loaded == lastCall.tslintCacheData
        IN  /\ lastCall.linted \subseteq InScopeFiles
            /\ \A filePath \in InScopeFiles \ lastCall.linted :
                  /\ loaded.exists
                  /\ loaded.cacheVersion = LinterVersion \o "_" \o run.configHash
                  /\ << filePath, run.versions[filePath] >> \in Range(loaded.fileVersions)
                  /\ filePath \notin lastCall.changedFiles
            /\ tslintCacheFile.exists
            /\ Range(tslintCacheFile.fileVersions) =
                  { << filePath, run.versions[filePath] >> :
                      filePath \in { f \in InScopeFiles :
                          << f, run.versions[f], run.configHash >> \notin run.failing } }
            /\ Len(tslintCacheFile.fileVersions) = Cardinality(Range(tslintCacheFile.fileVersions))
            /\ \A filePath \in lastCall.lintFailures :
                  \A pair \in Range(tslintCacheFile.fileVersions) : pair[1] # filePath

====
